---------------------------- MODULE Spec2Model ----------------------------
(***************************************************************************)
(* A model of the calculation core of the counterfactual portfolio tool:   *)
(* the price look-ups, the split un-adjustment and the time-series engine  *)
(* calculatePortfolioTimeSeries (src/src/utils/stockApi.ts).               *)
(*                                                                         *)
(* Representation.                                                         *)
(*  - An ISO date 'YYYY-MM-DD' is a natural number; the order of the       *)
(*    numbers is the order of the strings (localeCompare, <=, >) and of    *)
(*    the parsed Date objects.                                             *)
(*  - Dollar amounts, share counts of trades, prices and split factors are *)
(*    integers.  Index ("SPY") share counts are rationals: they are held   *)
(*    as integer multiples of 1/ShareScale, and every index price divides  *)
(*    ShareScale, so amount / price is exact.  Arithmetic is exact: the    *)
(*    rounding error of IEEE doubles is not modelled.                      *)
(*  - The fields of an emitted data point are rounded to 2 decimals by     *)
(*    the code; the model holds them as integers in 1/100 units (cents,    *)
(*    hundredths of a percent).                                            *)
(***************************************************************************)
EXTENDS Integers, Sequences, FiniteSets, TLC

\* ------------------------------------------------------------------ bounds
MaxDate      == 3     \* dates are 1..MaxDate
MaxTrades    == 2     \* longest list of trades
MaxCashFlows == 2     \* longest list of cash flows
MaxSplits    == 2     \* longest list of splits of one ticker

\* The absent optional field Trade.price, and the null of a look-up.
NoPrice == -1
Null    == -1

Dates       == 1..MaxDate
Tickers     == {"A", "B"}
TradeShares == {1, 2}
TradePrices == {NoPrice, 3}
IndexPrices == {1, 2}
Amounts     == {0, 2, 4}
Factors     == {2, 3}

RECURSIVE SetProduct(_)
SetProduct(S) ==
    IF S = {} THEN 1 ELSE LET x == CHOOSE y \in S : TRUE IN x * SetProduct(S \ {x})

RECURSIVE SetSum(_, _)
\* The sum of f[x] over x in S.
SetSum(f, S) ==
    IF S = {} THEN 0 ELSE LET x == CHOOSE y \in S : TRUE IN f[x] + SetSum(f, S \ {x})

\* Index shares are counted in units of 1/ShareScale.
ShareScale == SetProduct(IndexPrices \ {0})

Max(a, b) == IF a >= b THEN a ELSE b

\* A quotient with divisor 0: NaN or an Infinity, which Math.round keeps. It
\* is held as a number no finite result of the model comes near, so that a
\* field can be compared with it.
NotFinite == 0 - 999999999

\* Math.round(x * 100) for the rational x = num / den, den >= 0: the nearest
\* integer, a half rounded towards +infinity.
Round100(num, den) ==
    IF den = 0 THEN NotFinite ELSE (200 * num + den) \div (2 * den)

RECURSIVE GCD(_, _)
\* The greatest common divisor of a > 0 and b >= 0.
GCD(a, b) == IF b = 0 THEN a ELSE GCD(b, a % b)

\* Math.round(x * scale) for the rational x = num / den, den > 0, as Round100
\* computes it, with the fraction scale / den reduced first so that no
\* intermediate value leaves the 32-bit integers of the model checker.
RoundScaled(scale, num, den) ==
    IF den = 0 THEN NotFinite
    ELSE LET g  == GCD(scale, den)
             sc == scale \div g
             d  == den \div g
             q  == num \div d       \* floor, also of a negative num
             r  == num % d          \* 0 .. d - 1
         IN  sc * q + (2 * sc * r + d) \div (2 * d)

\* The amounts of a breakdown row and of a summary count 1/CentUnit cent, so
\* that a row written by hand can carry a fraction of a cent.
CentUnit == 10

\* Math.round(x * 100) / 100 for the amount x = num / den dollars, den > 0, in
\* 1/CentUnit cents: a whole number of cents.
RoundToCents(num, den) ==
    IF den = 0 THEN NotFinite ELSE CentUnit * RoundScaled(100, num, den)

\* Math.round(x * 1000000): the factor of the rounding of a row's shares.
ShareDecimals == 1000000

\* The finest share count of the inputs: 0.4 of a millionth of a share, as a
\* number of units per share.
ShareQuantum == (5 * ShareDecimals) \div 2

\* ------------------------------------------------------------------ state
VARIABLES
    \* the arguments of the call
    trades, stockPrices, spyPrices, cashFlows, splits,
    \* where the call is: "start", "loop", "done"
    pc,
    \* constants of the run, set before the loop
    sortedTrades, useCashFlowBasis, useDepositBasis,
    \* the loop's state
    dayIndex, tradeIndex, sharesPerTicker, tradeBasedSpyShares, tradeCostBasis,
    \* the locals of the last day processed
    portfolioValue, counterfactualSpyShares, costBasis,
    \* the result
    dataPoints,
    \* a call of getPriceOnDate(spyPrices, query) and what it returned, and what
    \* getPriceOnOrBefore(spyPrices, query) returned
    query, answer, found,
    \* trade.shares counts units of 1/shareUnit share
    shareUnit,
    \* what calculateStockBreakdown and calculateSummary returned
    breakdown, summary,
    \* the moment and the time zones of a call of getDateRange, and its result
    clock, range,
    \* a call of fetchMultipleStocks: the tickers asked for, what the provider
    \* answered to each request so far, the order in which the requests
    \* settled, the module's cache, and what the call returned
    tickers, responses, settleOrder, priceCache, fetched,
    \* the hook useStockData: its calls of loadData, its state and the order in
    \* which the calls finished
    calls, loading, error, shown, finished

argVars  == <<trades, stockPrices, spyPrices, cashFlows, splits>>
runVars  == <<sortedTrades, useCashFlowBasis, useDepositBasis>>
loopVars == <<dayIndex, tradeIndex, sharesPerTicker, tradeBasedSpyShares,
              tradeCostBasis, portfolioValue, counterfactualSpyShares, costBasis,
              dataPoints>>
lookVars == <<query, answer, found>>
reportVars == <<shareUnit, breakdown, summary>>
rangeVars  == <<clock, range>>
fetchVars  == <<tickers, responses, settleOrder, priceCache, fetched>>
hookVars   == <<calls, loading, error, shown, finished>>
vars     == <<argVars, pc, runVars, loopVars, lookVars, reportVars, rangeVars,
              fetchVars, hookVars>>

\* --------------------------------------------------------------- helpers
\* record[key] || []
OrEmpty(record, key) == IF key \in DOMAIN record THEN record[key] ELSE <<>>

\* trade.price ?? 0
PriceOrZero(trade) == IF trade.price = NoPrice THEN 0 ELSE trade.price

\* shares * (price ?? 0)
TradeAmount(trade) == trade.shares * PriceOrZero(trade)

\* A JavaScript number | null used as a condition: null and 0 are falsy.
Truthy(p) == p # Null /\ p # 0

\* [...xs].sort((a, b) => a.date.localeCompare(b.date)): a stable sort by date
\* of a copy.
RECURSIVE SortByDate(_)
SortByDate(s) ==
    IF Len(s) = 0 THEN s
    ELSE LET front == SortByDate(SubSeq(s, 1, Len(s) - 1))
             x     == s[Len(s)]
             k     == Cardinality({i \in 1..Len(front) : front[i].date <= x.date})
         IN  SubSeq(front, 1, k) \o <<x>> \o SubSeq(front, k + 1, Len(front))

\* ------------------------------------------------------- price look-ups
\* getLatestPrice: the last entry's price, 0 for an empty series.
getLatestPrice(prices) == IF Len(prices) > 0 THEN prices[Len(prices)].price ELSE 0

\* findPriceOnDate: the backward linear scan from index i (1-based) down; the
\* entry found, as its index, or 0 when the loop ends without a return.
RECURSIVE ScanBackward(_, _, _)
ScanBackward(prices, date, i) ==
    IF i < 1 THEN 0
    ELSE IF prices[i].date <= date THEN i
    ELSE ScanBackward(prices, date, i - 1)

\* Mutant of findPriceOnDate: no clamp to the first entry.
findPriceOnDate_NoClamp(prices, date) == ScanBackward(prices, date, Len(prices))

\* findPriceOnDate: the index of the entry returned, 0 for null.
findPriceOnDate(prices, date) ==
    LET i == ScanBackward(prices, date, Len(prices))
    IN  IF i # 0 THEN i
        ELSE IF Len(prices) > 0 THEN 1 ELSE 0

\* getPriceOnDate: entry?.price ?? null
getPriceOnDate(prices, date) ==
    LET i == findPriceOnDate(prices, date)
    IN  IF i = 0 THEN Null ELSE prices[i].price

\* The while loop of getPriceOnOrBefore and getUnadjustedPriceOnOrBefore over
\* the 1-based bounds left..right; result is the index of the entry last
\* recorded, 0 for none (null).
RECURSIVE BinarySearch(_, _, _, _, _)
BinarySearch(prices, targetDate, left, right, result) ==
    IF left > right THEN result
    ELSE LET mid == (left + right) \div 2
         IN  IF prices[mid].date <= targetDate
             THEN BinarySearch(prices, targetDate, mid + 1, right, mid)
             ELSE BinarySearch(prices, targetDate, left, mid - 1, result)

\* Mutant of getPriceOnOrBefore: null when every entry is dated after the
\* target.
getPriceOnOrBefore_NoClamp(prices, targetDate) ==
    IF Len(prices) = 0 THEN Null
    ELSE LET r == BinarySearch(prices, targetDate, 1, Len(prices), 0)
         IN  IF r # 0 THEN prices[r].price ELSE Null

\* getPriceOnOrBefore
getPriceOnOrBefore(prices, targetDate) ==
    IF Len(prices) = 0 THEN Null
    ELSE LET r == BinarySearch(prices, targetDate, 1, Len(prices), 0)
         IN  IF r # 0 THEN prices[r].price ELSE prices[1].price

\* ------------------------------------------------------ split adjustment
\* Mutant of getSplitAdjustmentFactor: a split dated on priceDate counts too.
RECURSIVE getSplitAdjustmentFactor_OnOrAfter(_, _)
getSplitAdjustmentFactor_OnOrAfter(splitList, priceDate) ==
    IF Len(splitList) = 0 THEN 1
    ELSE (IF splitList[1].date >= priceDate THEN splitList[1].splitFactor ELSE 1)
         * getSplitAdjustmentFactor_OnOrAfter(Tail(splitList), priceDate)

\* getSplitAdjustmentFactor: the product of the factors of the splits dated
\* strictly after priceDate.
RECURSIVE getSplitAdjustmentFactor(_, _)
getSplitAdjustmentFactor(splitList, priceDate) ==
    IF Len(splitList) = 0 THEN 1
    ELSE (IF splitList[1].date > priceDate THEN splitList[1].splitFactor ELSE 1)
         * getSplitAdjustmentFactor(Tail(splitList), priceDate)

\* buildUnadjustedPriceMap: date -> price * factor; a later entry of the same
\* date overwrites an earlier one (Map.set).
buildUnadjustedPriceMap(prices, splitList) ==
    LET sortedSplits == SortByDate(splitList)
        last(d) == CHOOSE i \in 1..Len(prices) :
                       /\ prices[i].date = d
                       /\ \A j \in (i + 1)..Len(prices) : prices[j].date # d
    IN  [d \in {prices[i].date : i \in 1..Len(prices)} |->
            prices[last(d)].price * getSplitAdjustmentFactor(sortedSplits, d)]

\* getUnadjustedPriceOnOrBefore
getUnadjustedPriceOnOrBefore(prices, splitList, targetDate) ==
    IF Len(prices) = 0 THEN Null
    ELSE LET sortedSplits == SortByDate(splitList)
             r == BinarySearch(prices, targetDate, 1, Len(prices), 0)
             e == IF r # 0 THEN prices[r] ELSE prices[1]
         IN  e.price * getSplitAdjustmentFactor(sortedSplits, e.date)

\* Mutant of PriceMaps: every ticker is un-adjusted by the splits of both
\* tickers.
PriceMaps_AllSplits(sp, spl) ==
    [ticker \in DOMAIN sp |->
        buildUnadjustedPriceMap(sp[ticker], OrEmpty(spl, "A") \o OrEmpty(spl, "B"))]

\* priceMaps: one unadjusted price map per key of stockPrices.
PriceMaps(sp, spl) ==
    [ticker \in DOMAIN sp |-> buildUnadjustedPriceMap(sp[ticker], OrEmpty(spl, ticker))]

\* Mutant of CurrentStockPrice: a date missing from the price map is priced 0.
CurrentStockPrice_ZeroWhenMissing(sp, spl, ticker, currentDate) ==
    LET maps == PriceMaps(sp, spl)
    IN  IF ticker \in DOMAIN maps /\ currentDate \in DOMAIN maps[ticker]
        THEN maps[ticker][currentDate]
        ELSE 0

\* The price the loop uses for a ticker on currentDate: priceMap?.get(currentDate),
\* and when that is undefined the fallback look-up, ?? 0.
CurrentStockPrice(sp, spl, ticker, currentDate) ==
    LET maps == PriceMaps(sp, spl)
    IN  IF ticker \in DOMAIN maps /\ currentDate \in DOMAIN maps[ticker]
        THEN maps[ticker][currentDate]
        ELSE LET p == getUnadjustedPriceOnOrBefore(OrEmpty(sp, ticker),
                                                   OrEmpty(spl, ticker), currentDate)
             IN  IF p = Null THEN 0 ELSE p

\* --------------------------------------- calculatePortfolioTimeSeries: set-up
\* f with f[key] set to value (an object property or Map entry written).
Put(f, key, value) ==
    [x \in (DOMAIN f) \cup {key} |-> IF x = key THEN value ELSE f[x]]

\* amount / spyPrice in units of 1/ShareScale; spyPrice > 0 divides ShareScale.
IndexShares(amount, spyPrice) == (amount * ShareScale) \div spyPrice

\* Mutant of AfterSortOfCopy: xs.sort(...), which sorts the array passed.
AfterSortOfCopy_InPlace(xs) == SortByDate(xs)

\* The array xs after [...xs].sort(...): Array.prototype.sort sorts the array
\* it is called on, here the copy that the spread made, and xs keeps its
\* elements in their order.
AfterSortOfCopy(xs) == xs

\* Mutant of SortedTrades: the trades are walked in the order passed.
SortedTrades_Unsorted(tr) == tr

\* const sortedTrades = [...trades].sort(...)
SortedTrades(tr) == SortByDate(tr)

\* cfs.reduce((sum, cf) => sum + cf.amount, 0)
RECURSIVE SumAmounts(_)
SumAmounts(cfs) ==
    IF Len(cfs) = 0 THEN 0 ELSE cfs[1].amount + SumAmounts(Tail(cfs))

\* const useCashFlowBasis = totalCashInflows > 0
UseCashFlowBasis(cf) == SumAmounts(cf) > 0

\* cashFlows.filter(cf => cf.type === 'deposit')
RECURSIVE Deposits(_)
Deposits(cf) ==
    IF Len(cf) = 0 THEN cf
    ELSE (IF cf[1].type = "deposit" THEN <<cf[1]>> ELSE <<>>) \o Deposits(Tail(cf))

\* const useDepositBasis = deposits.length > 0
UseDepositBasis(cf) == Len(Deposits(cf)) > 0

\* Mutant of FillDepositMap: the Map holds the shares of each deposit, not the
\* running total.
RECURSIVE FillDepositMap_NotCumulative(_, _, _, _, _)
FillDepositMap_NotCumulative(sortedDeposits, spy, i, map, cumulative) ==
    IF i > Len(sortedDeposits) THEN map
    ELSE LET deposit == sortedDeposits[i]
             spyPriceAtDeposit == getPriceOnOrBefore(spy, deposit.date)
         IN  IF Truthy(spyPriceAtDeposit)
             THEN LET c == IndexShares(deposit.amount, spyPriceAtDeposit)
                  IN  FillDepositMap_NotCumulative(sortedDeposits, spy, i + 1,
                                                   Put(map, deposit.date, c), c)
             ELSE FillDepositMap_NotCumulative(sortedDeposits, spy, i + 1, map,
                                               cumulative)

\* The loop that fills depositSpySharesByDate, from deposit i on; map is the Map
\* so far and cumulative is cumulativeDepositSpyShares.
RECURSIVE FillDepositMap(_, _, _, _, _)
FillDepositMap(sortedDeposits, spy, i, map, cumulative) ==
    IF i > Len(sortedDeposits) THEN map
    ELSE LET deposit == sortedDeposits[i]
             spyPriceAtDeposit == getPriceOnOrBefore(spy, deposit.date)
         IN  IF Truthy(spyPriceAtDeposit)
             THEN LET c == cumulative + IndexShares(deposit.amount, spyPriceAtDeposit)
                  IN  FillDepositMap(sortedDeposits, spy, i + 1,
                                     Put(map, deposit.date, c), c)
             ELSE FillDepositMap(sortedDeposits, spy, i + 1, map, cumulative)

\* depositSpySharesByDate
DepositSpySharesByDate(cf, spy) ==
    FillDepositMap(SortByDate(Deposits(cf)), spy, 1, <<>>, 0)

\* Mutant of SpySharesChange: a sell adds index shares like a buy.
SpySharesChange_NoSign(trade, spy) ==
    LET spyPriceAtTrade == getPriceOnOrBefore(spy, trade.date)
    IN  IF ~Truthy(spyPriceAtTrade) THEN 0
        ELSE IndexShares(TradeAmount(trade), spyPriceAtTrade)

\* One element of tradeSpySharesChange.
SpySharesChange(trade, spy) ==
    LET spyPriceAtTrade == getPriceOnOrBefore(spy, trade.date)
    IN  IF ~Truthy(spyPriceAtTrade) THEN 0
        ELSE LET spyShares == IndexShares(TradeAmount(trade), spyPriceAtTrade)
             IN  IF trade.type = "sell" THEN 0 - spyShares ELSE spyShares

\* tradeSpySharesChange
TradeSpySharesChange(sorted, spy) ==
    [i \in 1..Len(sorted) |-> SpySharesChange(sorted[i], spy)]

\* ------------------------------------- calculatePortfolioTimeSeries: one day
\* Mutant of ApplyTrade: the running trade cost basis is floored at zero.
ApplyTrade_FlooredTotal(st, trade, change) ==
    LET held == IF trade.ticker \in DOMAIN st.sharesPerTicker
                THEN st.sharesPerTicker[trade.ticker] ELSE 0
        sell == trade.type = "sell"
    IN  [st EXCEPT
            !.sharesPerTicker = Put(@, trade.ticker,
                                    IF sell THEN held - trade.shares
                                            ELSE held + trade.shares),
            !.tradeCostBasis = Max(0, IF sell THEN @ - TradeAmount(trade)
                                              ELSE @ + TradeAmount(trade)),
            !.tradeBasedSpyShares = @ + change,
            !.tradeIndex = @ + 1]

\* One iteration of the inner while loop: the trade at the cursor is applied.
ApplyTrade(st, trade, change) ==
    LET held == IF trade.ticker \in DOMAIN st.sharesPerTicker
                THEN st.sharesPerTicker[trade.ticker] ELSE 0
        sell == trade.type = "sell"
    IN  [st EXCEPT
            !.sharesPerTicker = Put(@, trade.ticker,
                                    IF sell THEN held - trade.shares
                                            ELSE held + trade.shares),
            !.tradeCostBasis = IF sell THEN @ - TradeAmount(trade)
                                       ELSE @ + TradeAmount(trade),
            !.tradeBasedSpyShares = @ + change,
            !.tradeIndex = @ + 1]

\* The inner while loop: every trade from the cursor on dated <= currentDate.
RECURSIVE ApplyTrades(_, _, _, _)
ApplyTrades(st, sorted, changes, currentDate) ==
    IF st.tradeIndex < Len(sorted) /\ sorted[st.tradeIndex + 1].date <= currentDate
    THEN ApplyTrades(ApplyTrade(st, sorted[st.tradeIndex + 1], changes[st.tradeIndex + 1]),
                     sorted, changes, currentDate)
    ELSE st

\* Mutant of TickerValue: a zero or negative position is priced too.
TickerValue_NoSkip(shares, currentStockPrice) == shares * currentStockPrice

\* What one ticker adds to portfolioValue: nothing when shares <= 0.
TickerValue(shares, currentStockPrice) ==
    IF shares <= 0 THEN 0 ELSE shares * currentStockPrice

\* let portfolioValue: the loop over Object.entries(sharesPerTicker).
PortfolioValue(held, sp, spl, currentDate) ==
    SetSum([ticker \in DOMAIN held |->
               TickerValue(held[ticker], CurrentStockPrice(sp, spl, ticker, currentDate))],
           DOMAIN held)

\* Mutant of DepositSharesAsOf: the loop breaks at a deposit dated on
\* currentDate already.
RECURSIVE DepositSharesAsOf_Before(_, _, _, _, _)
DepositSharesAsOf_Before(sortedDeposits, map, currentDate, i, shares) ==
    IF i > Len(sortedDeposits) THEN shares
    ELSE IF sortedDeposits[i].date >= currentDate THEN shares
    ELSE DepositSharesAsOf_Before(sortedDeposits, map, currentDate, i + 1,
                                  IF sortedDeposits[i].date \in DOMAIN map
                                  THEN map[sortedDeposits[i].date] ELSE shares)

\* The loop over sortedDeposits that reads depositSpySharesByDate, from
\* deposit i on; it breaks at the first deposit dated after currentDate.
RECURSIVE DepositSharesAsOf(_, _, _, _, _)
DepositSharesAsOf(sortedDeposits, map, currentDate, i, shares) ==
    IF i > Len(sortedDeposits) THEN shares
    ELSE IF sortedDeposits[i].date > currentDate THEN shares
    ELSE DepositSharesAsOf(sortedDeposits, map, currentDate, i + 1,
                           IF sortedDeposits[i].date \in DOMAIN map
                           THEN map[sortedDeposits[i].date] ELSE shares)

\* counterfactualSpyShares of the day
CounterfactualSpyShares(depositBasis, cf, spy, currentDate, tradeBased) ==
    IF depositBasis
    THEN DepositSharesAsOf(SortByDate(Deposits(cf)), DepositSpySharesByDate(cf, spy),
                           currentDate, 1, 0)
    ELSE tradeBased

\* sortedCashFlows.filter(cf => cf.date <= currentDate).reduce(...)
RECURSIVE CashFlowsUpTo(_, _)
CashFlowsUpTo(sortedCashFlows, currentDate) ==
    IF Len(sortedCashFlows) = 0 THEN 0
    ELSE (IF sortedCashFlows[1].date <= currentDate THEN sortedCashFlows[1].amount ELSE 0)
         + CashFlowsUpTo(Tail(sortedCashFlows), currentDate)

\* Math.max(0, tradeCostBasis)
FlooredTradeCostBasis(tradeBasis) == Max(0, tradeBasis)

\* Mutant of CostBasis: the basis is chosen day by day, from the cash flows
\* dated up to the day.
CostBasis_PerDay(cashFlowBasis, cf, currentDate, tradeBasis) ==
    IF CashFlowsUpTo(SortByDate(cf), currentDate) > 0
    THEN CashFlowsUpTo(SortByDate(cf), currentDate)
    ELSE FlooredTradeCostBasis(tradeBasis)

\* let costBasis
CostBasis(cashFlowBasis, cf, currentDate, tradeBasis) ==
    IF cashFlowBasis THEN CashFlowsUpTo(SortByDate(cf), currentDate)
    ELSE FlooredTradeCostBasis(tradeBasis)

\* Mutant of ShouldEmit: a day with cost basis 0 is emitted too.
ShouldEmit_NonNegative(cb) == cb >= 0

\* if (costBasis > 0)
ShouldEmit(cb) == cb > 0

\* The record pushed to dataPoints.  pv and cb are dollars, spyShares is in
\* 1/ShareScale index shares; the fields are in 1/100 units.
DataPoint(currentDate, pv, spyShares, spyPrice, cb) ==
    LET cvNum == Max(0, spyShares) * spyPrice      \* counterfactualValue * ShareScale
    IN  [date                 |-> currentDate,
         portfolioValue       |-> Round100(pv, 1),
         counterfactualValue  |-> Round100(cvNum, ShareScale),
         costBasis            |-> Round100(cb, 1),
         portfolioReturn      |-> Round100((pv - cb) * 100, cb),
         counterfactualReturn |-> Round100((cvNum - cb * ShareScale) * 100,
                                           cb * ShareScale)]

\* The loop's state before the first day.
InitialLoopState ==
    [dayIndex |-> 0, tradeIndex |-> 0, sharesPerTicker |-> <<>>,
     tradeBasedSpyShares |-> 0, tradeCostBasis |-> 0,
     portfolioValue |-> 0, counterfactualSpyShares |-> 0, costBasis |-> 0,
     dataPoints |-> <<>>]

\* One iteration of for (const spyPrice of spyPrices), on the loop state st of
\* a run with the constants run and the arguments sp, spy, cf, spl.
DayBody(st, run, sp, spy, cf, spl) ==
    LET spyPrice    == spy[st.dayIndex + 1]
        currentDate == spyPrice.date
        s1 == ApplyTrades(st, run.sortedTrades,
                          TradeSpySharesChange(run.sortedTrades, spy), currentDate)
        pv == PortfolioValue(s1.sharesPerTicker, sp, spl, currentDate)
        cs == CounterfactualSpyShares(run.useDepositBasis, cf, spy, currentDate,
                                      s1.tradeBasedSpyShares)
        cb == CostBasis(run.useCashFlowBasis, cf, currentDate, s1.tradeCostBasis)
    IN  [s1 EXCEPT
            !.dayIndex = @ + 1,
            !.portfolioValue = pv,
            !.counterfactualSpyShares = cs,
            !.costBasis = cb,
            !.dataPoints = IF ShouldEmit(cb)
                           THEN Append(@, DataPoint(currentDate, pv, cs, spyPrice.price, cb))
                           ELSE @]

\* The constants of a run.
RunConstants(tr, cf) ==
    [sortedTrades     |-> SortedTrades(tr),
     useCashFlowBasis |-> UseCashFlowBasis(cf),
     useDepositBasis  |-> UseDepositBasis(cf)]

\* The whole loop from state st on.
RECURSIVE RunLoop(_, _, _, _, _, _)
RunLoop(st, run, sp, spy, cf, spl) ==
    IF st.dayIndex >= Len(spy) THEN st
    ELSE RunLoop(DayBody(st, run, sp, spy, cf, spl), run, sp, spy, cf, spl)

\* calculatePortfolioTimeSeries as a function of its arguments: its result.
calculatePortfolioTimeSeries(tr, sp, spy, cf, spl) ==
    IF Len(tr) = 0 \/ Len(spy) = 0 THEN <<>>
    ELSE RunLoop(InitialLoopState, RunConstants(tr, cf), sp, spy, cf, spl).dataPoints

\* ------------------------------------------------- calculateStockBreakdown
\* Units: a trade's shares and an entry's totalShares count 1/shareUnit share;
\* totalCost counts 1/shareUnit dollar; totalSpyShares counts
\* 1/(shareUnit * ShareScale) index share.  In a row, shares is in millionths
\* of a share, spyShares in hundredths of an index share, currentPrice in
\* dollars and every other amount in 1/CentUnit cents.

\* The index in the list aggregated of the entry of a ticker, 0 for none: the
\* list holds the properties of the object in the order they were created,
\* which is the order of Object.entries.
EntryOf(aggregated, ticker) ==
    IF \E i \in 1..Len(aggregated) : aggregated[i].ticker = ticker
    THEN CHOOSE i \in 1..Len(aggregated) : aggregated[i].ticker = ticker
    ELSE 0

\* if (!aggregated[trade.ticker]) aggregated[trade.ticker] = {...}
WithEntry(aggregated, trade) ==
    IF EntryOf(aggregated, trade.ticker) # 0 THEN aggregated
    ELSE Append(aggregated,
                [ticker |-> trade.ticker, totalShares |-> 0, totalCost |-> 0,
                 totalSpyShares |-> 0, firstBuyDate |-> trade.date])

\* const spySharesChange = spyPriceAtTrade ? tradeAmount / spyPriceAtTrade : 0
\* with the look-up getPriceOnDate.
BreakdownSpySharesChange(trade, spy) ==
    LET spyPriceAtTrade == getPriceOnDate(spy, trade.date)
    IN  IF Truthy(spyPriceAtTrade)
        THEN IndexShares(TradeAmount(trade), spyPriceAtTrade)
        ELSE 0

\* Mutant of AggregateTrade: a sell is added like a buy.
AggregateTrade_SellAdds(aggregated, trade, spy) ==
    LET agg == WithEntry(aggregated, trade)
        i   == EntryOf(agg, trade.ticker)
        e   == agg[i]
    IN  [agg EXCEPT ![i] =
            [e EXCEPT !.totalShares = @ + trade.shares,
                      !.totalCost = @ + TradeAmount(trade),
                      !.totalSpyShares = @ + BreakdownSpySharesChange(trade, spy),
                      !.firstBuyDate = IF trade.date < @ THEN trade.date ELSE @]]

\* One iteration of for (const trade of trades).
AggregateTrade(aggregated, trade, spy) ==
    LET agg == WithEntry(aggregated, trade)
        i   == EntryOf(agg, trade.ticker)
        e   == agg[i]
    IN  [agg EXCEPT ![i] =
            IF trade.type = "sell"
            THEN [e EXCEPT !.totalShares = @ - trade.shares,
                           !.totalCost = @ - TradeAmount(trade),
                           !.totalSpyShares = @ - BreakdownSpySharesChange(trade, spy)]
            ELSE [e EXCEPT !.totalShares = @ + trade.shares,
                           !.totalCost = @ + TradeAmount(trade),
                           !.totalSpyShares = @ + BreakdownSpySharesChange(trade, spy),
                           !.firstBuyDate = IF trade.date < @ THEN trade.date ELSE @]]

\* The whole loop over the trades, from trade i on.
RECURSIVE Aggregate(_, _, _, _)
Aggregate(aggregated, tr, spy, i) ==
    IF i > Len(tr) THEN aggregated
    ELSE Aggregate(AggregateTrade(aggregated, tr[i], spy), tr, spy, i + 1)

\* Mutant of SkipEntry: a ticker whose price series is empty is reported.
SkipEntry_KeepsEmptySeries(data, sp) ==
    \/ data.totalShares <= 0
    \/ data.ticker \notin DOMAIN sp

\* The two continue statements of the second loop.
SkipEntry(data, sp) ==
    \/ data.totalShares <= 0
    \/ data.ticker \notin DOMAIN sp
    \/ Len(sp[data.ticker]) = 0

\* The record pushed to breakdown for an entry that is not skipped.
BreakdownRow(data, sp, spy) ==
    LET den             == shareUnit * ShareScale
        currentSpyPrice == getLatestPrice(spy)
        currentPrice    == getLatestPrice(sp[data.ticker])
        \* the amounts below are numerators over den
        currentValue    == data.totalShares * currentPrice * ShareScale
        spyCurrentValue == Max(0, data.totalSpyShares) * currentSpyPrice
        netInvestment   == Max(0, data.totalCost) * ShareScale
        gain            == currentValue - netInvestment
        spyGain         == spyCurrentValue - netInvestment
        difference      == gain - spyGain
    IN  [ticker          |-> data.ticker,
         shares          |-> RoundScaled(ShareDecimals, data.totalShares, shareUnit),
         buyDate         |-> data.firstBuyDate,
         buyPrice        |-> IF data.totalShares > 0
                             THEN RoundToCents(Max(0, data.totalCost), data.totalShares)
                             ELSE 0,
         currentPrice    |-> currentPrice,
         currentValue    |-> RoundToCents(currentValue, den),
         spyShares       |-> RoundScaled(100, Max(0, data.totalSpyShares), den),
         spyCurrentValue |-> RoundToCents(spyCurrentValue, den),
         gain            |-> RoundToCents(gain, den),
         spyGain         |-> RoundToCents(spyGain, den),
         difference      |-> RoundToCents(difference, den)]

\* The loop over Object.entries(aggregated), from entry i on.
RECURSIVE BreakdownRows(_, _, _, _)
BreakdownRows(aggregated, sp, spy, i) ==
    IF i > Len(aggregated) THEN <<>>
    ELSE (IF SkipEntry(aggregated[i], sp) THEN <<>>
          ELSE <<BreakdownRow(aggregated[i], sp, spy)>>)
         \o BreakdownRows(aggregated, sp, spy, i + 1)

\* Mutant of SortByDifference: the rows stay in the order they were pushed.
SortByDifference_Unsorted(rows) == rows

\* breakdown.sort((a, b) => b.difference - a.difference): a stable sort, the
\* larger difference first.
RECURSIVE SortByDifference(_)
SortByDifference(rows) ==
    IF Len(rows) = 0 THEN rows
    ELSE LET front == SortByDifference(SubSeq(rows, 1, Len(rows) - 1))
             x     == rows[Len(rows)]
             k     == Cardinality({i \in 1..Len(front) :
                                      front[i].difference >= x.difference})
         IN  SubSeq(front, 1, k) \o <<x>> \o SubSeq(front, k + 1, Len(front))

\* calculateStockBreakdown
calculateStockBreakdown(tr, sp, spy) ==
    SortByDifference(BreakdownRows(Aggregate(<<>>, tr, spy, 1), sp, spy, 1))

\* ------------------------------------------------------- calculateSummary
\* Units: the amounts of a summary are in 1/CentUnit cents, the three
\* percentages in hundredths of a percent.

\* The null of bestPerformer and worstPerformer: a value that can be compared
\* with the record of a performer.
NullPerformer == <<>>

\* trades.reduce((sum, t) => sum + (t.type === 'sell' ? -amount : amount), 0),
\* in 1/shareUnit dollars.
RECURSIVE NetTradeAmount(_)
NetTradeAmount(tr) ==
    IF Len(tr) = 0 THEN 0
    ELSE NetTradeAmount(SubSeq(tr, 1, Len(tr) - 1))
         + (IF tr[Len(tr)].type = "sell" THEN 0 - TradeAmount(tr[Len(tr)])
                                         ELSE TradeAmount(tr[Len(tr)]))

\* Mutant of TotalCostBasis: the net amount is not floored at zero.
TotalCostBasis_NotFloored(tr) == NetTradeAmount(tr)

\* totalCostBasis = Math.max(0, totalCostBasis), in 1/shareUnit dollars.
TotalCostBasis(tr) == Max(0, NetTradeAmount(tr))

\* Mutant of EmptySummary: the test of the empty breakdown comes after the
\* cost basis was computed from the trades, and the result carries it.
EmptySummary_CostFromTrades ==
    [totalCostBasis |-> RoundToCents(TotalCostBasis(trades), shareUnit),
     totalPortfolioValue |-> 0,
     totalCounterfactualValue |-> 0, portfolioReturn |-> 0,
     counterfactualReturn |-> 0, totalDifference |-> 0,
     percentageDifference |-> 0,
     bestPerformer |-> NullPerformer, worstPerformer |-> NullPerformer]

\* The result for an empty breakdown.
EmptySummary ==
    [totalCostBasis |-> 0, totalPortfolioValue |-> 0,
     totalCounterfactualValue |-> 0, portfolioReturn |-> 0,
     counterfactualReturn |-> 0, totalDifference |-> 0,
     percentageDifference |-> 0,
     bestPerformer |-> NullPerformer, worstPerformer |-> NullPerformer]

\* breakdown.reduce((sum, b) => sum + b[field], 0), in 1/CentUnit cents.
RECURSIVE SumField(_, _)
SumField(bd, field) ==
    IF Len(bd) = 0 THEN 0
    ELSE SumField(SubSeq(bd, 1, Len(bd) - 1), field) + bd[Len(bd)][field]

\* Mutant of TotalDifference: the sum of the rows' difference fields.
TotalDifference_OfRows(bd) == SumField(bd, "difference")

\* const totalDifference = totalPortfolioValue - totalCounterfactualValue
TotalDifference(bd) == SumField(bd, "currentValue") - SumField(bd, "spyCurrentValue")

\* Mutant of ReturnOn: the quotient is taken whatever the cost basis.
ReturnOn_Unguarded(value, basis) ==
    RoundScaled(100, value * shareUnit - 100 * CentUnit * basis, CentUnit * basis)

\* totalCostBasis > 0 ? ((value - totalCostBasis) / totalCostBasis) * 100 : 0
\* and the rounding at the return, for a value in 1/CentUnit cents and a cost
\* basis in 1/shareUnit dollars.
ReturnOn(value, basis) ==
    IF basis > 0
    THEN RoundScaled(100, value * shareUnit - 100 * CentUnit * basis, CentUnit * basis)
    ELSE 0

\* totalCostBasis > 0 ? (totalDifference / totalCostBasis) * 100 : 0 and the
\* rounding at the return.
PercentageOf(difference, basis) ==
    IF basis > 0 THEN RoundScaled(100, difference * shareUnit, CentUnit * basis)
    ELSE 0

\* Mutant of BestOf: a later row of equal difference replaces the best so far.
RECURSIVE BestOf_LastOfEqual(_, _, _)
BestOf_LastOfEqual(bd, i, best) ==
    IF i > Len(bd) THEN best
    ELSE BestOf_LastOfEqual(bd, i + 1,
                            IF bd[i].difference >= best.difference THEN bd[i] ELSE best)

\* The loop for (const stock of breakdown), from row i on, for bestPerformer.
RECURSIVE BestOf(_, _, _)
BestOf(bd, i, best) ==
    IF i > Len(bd) THEN best
    ELSE BestOf(bd, i + 1, IF bd[i].difference > best.difference THEN bd[i] ELSE best)

\* The same loop for worstPerformer.
RECURSIVE WorstOf(_, _, _)
WorstOf(bd, i, worst) ==
    IF i > Len(bd) THEN worst
    ELSE WorstOf(bd, i + 1, IF bd[i].difference < worst.difference THEN bd[i] ELSE worst)

\* { ticker: row.ticker, difference: row.difference }
Performer(row) == [ticker |-> row.ticker, difference |-> row.difference]

\* calculateSummary; cf is the parameter cashFlows, which the body never reads.
calculateSummary(bd, cf, tr) ==
    IF Len(bd) = 0 THEN EmptySummary
    ELSE LET totalCostBasis           == TotalCostBasis(tr)
             totalPortfolioValue      == SumField(bd, "currentValue")
             totalCounterfactualValue == SumField(bd, "spyCurrentValue")
             totalDifference          == TotalDifference(bd)
             dollar                   == 100 * CentUnit
         IN  [totalCostBasis           |-> RoundToCents(totalCostBasis, shareUnit),
              totalPortfolioValue      |-> RoundToCents(totalPortfolioValue, dollar),
              totalCounterfactualValue |-> RoundToCents(totalCounterfactualValue, dollar),
              portfolioReturn          |-> ReturnOn(totalPortfolioValue, totalCostBasis),
              counterfactualReturn     |-> ReturnOn(totalCounterfactualValue, totalCostBasis),
              totalDifference          |-> RoundToCents(totalDifference, dollar),
              percentageDifference     |-> PercentageOf(totalDifference, totalCostBasis),
              bestPerformer            |-> Performer(BestOf(bd, 1, bd[1])),
              worstPerformer           |-> Performer(WorstOf(bd, 1, bd[1]))]

\* ------------------------------------------------------------ the inputs
SeqsUpTo(S, n) == UNION {[1..k -> S] : k \in 0..n}

\* Strictly date-ascending sequences (a price series has one entry per date,
\* in chronological order).
Ascending(s) == \A i \in 1..(Len(s) - 1) : s[i].date < s[i + 1].date

\* The dates of D in ascending order.
RECURSIVE DatesAscending(_)
DatesAscending(D) ==
    IF D = {} THEN <<>>
    ELSE LET m == CHOOSE x \in D : \A y \in D : y <= x
         IN  Append(DatesAscending(D \ {m}), m)

\* The provider's price of a ticker on a date: distinct for distinct dates, so
\* that the entry a look-up used shows in the value.
ProviderPrice(ticker, d) == (IF ticker = "A" THEN 10 ELSE 20) + d

\* The provider's series of a ticker restricted to the dates D.
StockSeries(ticker, D) ==
    LET ds == DatesAscending(D)
    IN  [i \in 1..Len(ds) |-> [date |-> ds[i], price |-> ProviderPrice(ticker, ds[i])]]

\* Every ascending index series over the dates with prices in IndexPrices.
IndexSeries ==
    {s \in SeqsUpTo([date : Dates, price : IndexPrices], MaxDate) : Ascending(s)}

\* The index series whose price on an odd date is 2 and on an even date 1.
AlternatingIndexSeries ==
    {s \in IndexSeries : \A i \in 1..Len(s) : s[i].price = 1 + (s[i].date % 2)}

TradeSet ==
    [ticker : Tickers, date : Dates, shares : TradeShares, price : TradePrices,
     type : {"buy", "sell"}]

CashFlowSet == [date : Dates, amount : Amounts, type : {"deposit", "dividend"}]

SplitSet == [date : Dates, splitFactor : Factors]

Buy(ticker, d, n, p)  == [ticker |-> ticker, date |-> d, shares |-> n, price |-> p, type |-> "buy"]
Sell(ticker, d, n, p) == [ticker |-> ticker, date |-> d, shares |-> n, price |-> p, type |-> "sell"]

\* A few lists of trades, for the runs that vary the cash flows or the splits.
FewTradeLists ==
    { <<Buy("A", 1, 2, 3)>>,
      <<Sell("A", 2, 1, 3), Buy("A", 1, 2, 3)>>,
      <<Buy("A", 1, 1, 3), Buy("B", 2, 2, NoPrice)>>,
      <<Buy("B", 2, 1, 3), Sell("A", 1, 1, 3)>> }

\* Runs that vary the trades: any list of trades, no cash flows, no splits.
InitTrades ==
    /\ trades \in SeqsUpTo(TradeSet, MaxTrades)
    /\ spyPrices \in AlternatingIndexSeries
    /\ stockPrices = [ticker \in Tickers |->
                        StockSeries(ticker, IF ticker = "A" THEN Dates ELSE {2})]
    /\ cashFlows = <<>>
    /\ splits = <<>>

\* Runs that vary the cash flows.
InitCashFlows ==
    /\ trades \in FewTradeLists
    /\ spyPrices \in {s \in AlternatingIndexSeries : Len(s) >= 2}
    /\ stockPrices = [ticker \in Tickers |-> StockSeries(ticker, Dates)]
    /\ cashFlows \in SeqsUpTo(CashFlowSet, MaxCashFlows) \ {<<>>}
    /\ splits = <<>>

\* Runs that vary the price series and the splits.
InitSplits ==
    /\ trades \in FewTradeLists
    /\ spyPrices \in {s \in AlternatingIndexSeries : Len(s) = MaxDate}
    /\ \E DA \in SUBSET Dates, KB \in SUBSET {"B"} :
          stockPrices = [ticker \in {"A"} \cup KB |->
                            StockSeries(ticker, IF ticker = "A" THEN DA ELSE {2})]
    /\ cashFlows = <<>>
    /\ \E sa \in SeqsUpTo(SplitSet, MaxSplits), sb \in SeqsUpTo(SplitSet, 1) :
          /\ sa # <<>> \/ sb # <<>>
          /\ splits = [ticker \in {t \in Tickers : (t = "A" /\ sa # <<>>) \/ (t = "B" /\ sb # <<>>)} |->
                          IF ticker = "A" THEN sa ELSE sb]

\* The variables of the time-series run before the call starts.
Fresh ==
    /\ sortedTrades = <<>>
    /\ useCashFlowBasis = FALSE
    /\ useDepositBasis = FALSE
    /\ dayIndex = InitialLoopState.dayIndex
    /\ tradeIndex = InitialLoopState.tradeIndex
    /\ sharesPerTicker = InitialLoopState.sharesPerTicker
    /\ tradeBasedSpyShares = InitialLoopState.tradeBasedSpyShares
    /\ tradeCostBasis = InitialLoopState.tradeCostBasis
    /\ portfolioValue = InitialLoopState.portfolioValue
    /\ counterfactualSpyShares = InitialLoopState.counterfactualSpyShares
    /\ costBasis = InitialLoopState.costBasis
    /\ dataPoints = InitialLoopState.dataPoints

\* The variables of the breakdown and the summary before any call returned.
NoReport ==
    /\ breakdown = <<>>
    /\ summary = <<>>

\* The variables of getDateRange outside a call of it.
NoRange ==
    /\ clock = <<>>
    /\ range = <<>>

\* The variables of fetchMultipleStocks outside a call of it.
NoFetch ==
    /\ tickers = <<>>
    /\ responses = <<>>
    /\ settleOrder = <<>>
    /\ priceCache = <<>>
    /\ fetched = <<>>

\* useState([]), useState([]), useState(null): what the hook shows before any
\* call of loadData wrote results.
NothingShown ==
    [timeSeriesData |-> <<>>, breakdownData |-> <<>>, summaryData |-> <<>>]

\* The state of the hook before any call of loadData; error is null (<<>>)
\* or <<message>>.
NoHook ==
    /\ calls = <<>>
    /\ loading = FALSE
    /\ error = <<>>
    /\ shown = NothingShown
    /\ finished = <<>>

\* Every ascending index series over the dates whose prices are 0 or 2: the
\* provider reported a price of 0 on some dates.
ZeroIndexSeries ==
    {s \in SeqsUpTo([date : Dates, price : {0, 2}], MaxDate) : Ascending(s)}

\* Lists of trades for the runs on an index series with zero prices: none, a
\* buy without price alone and a priced buy with a sale of the same value
\* (total cost basis 0 with a held position), priced buys and sells.
GuardTradeLists ==
    FewTradeLists \cup {<<>>, <<Buy("A", 1, 2, NoPrice)>>,
                        <<Buy("A", 1, 2, 3), Sell("B", 1, 2, 3)>>}

\* Runs that vary the index prices, zero included, and the cash flows.
InitGuards ==
    /\ trades \in GuardTradeLists
    /\ spyPrices \in ZeroIndexSeries
    /\ stockPrices = [ticker \in Tickers |-> StockSeries(ticker, Dates)]
    /\ cashFlows \in SeqsUpTo([date : Dates, amount : {0, 4}, type : {"deposit", "dividend"}],
                              MaxCashFlows)
    /\ splits = <<>>
    /\ pc = "start"
    /\ Fresh
    /\ query = 0
    /\ answer = Null
    /\ found = Null
    /\ shareUnit = 1
    /\ NoReport
    /\ NoRange
    /\ NoFetch
    /\ NoHook

\* The three entry points are called with the same arguments, whole shares.
Init ==
    /\ InitTrades \/ InitCashFlows \/ InitSplits
    /\ pc = "start"
    /\ Fresh
    /\ query = 0
    /\ answer = Null
    /\ found = Null
    /\ shareUnit = 1
    /\ NoReport
    /\ NoRange
    /\ NoFetch
    /\ NoHook

\* ------------------------------------------------------------ the actions
LoopState ==
    [dayIndex |-> dayIndex, tradeIndex |-> tradeIndex,
     sharesPerTicker |-> sharesPerTicker,
     tradeBasedSpyShares |-> tradeBasedSpyShares, tradeCostBasis |-> tradeCostBasis,
     portfolioValue |-> portfolioValue,
     counterfactualSpyShares |-> counterfactualSpyShares, costBasis |-> costBasis,
     dataPoints |-> dataPoints]

Run ==
    [sortedTrades |-> sortedTrades, useCashFlowBasis |-> useCashFlowBasis,
     useDepositBasis |-> useDepositBasis]

\* if (trades.length === 0 || spyPrices.length === 0) return [];
ReturnEmpty ==
    /\ pc = "start"
    /\ Len(trades) = 0 \/ Len(spyPrices) = 0
    /\ pc' = "done"
    /\ UNCHANGED <<argVars, runVars, loopVars, lookVars, reportVars, rangeVars, fetchVars,
                 hookVars>>

\* Everything from the sort of the trades to the first iteration of the loop.
Setup ==
    /\ pc = "start"
    /\ ~(Len(trades) = 0 \/ Len(spyPrices) = 0)
    /\ LET run == RunConstants(trades, cashFlows)
       IN  /\ sortedTrades' = run.sortedTrades
           /\ useCashFlowBasis' = run.useCashFlowBasis
           /\ useDepositBasis' = run.useDepositBasis
    \* the arrays of the caller after the sorts of the copies of trades, of
    \* cashFlows and, in buildUnadjustedPriceMap, of each list of splits
    /\ trades' = AfterSortOfCopy(trades)
    /\ cashFlows' = AfterSortOfCopy(cashFlows)
    /\ splits' = [ticker \in DOMAIN splits |-> AfterSortOfCopy(splits[ticker])]
    /\ pc' = "loop"
    /\ UNCHANGED <<stockPrices, spyPrices, loopVars, lookVars, reportVars, rangeVars,
                 fetchVars, hookVars>>

\* One iteration of for (const spyPrice of spyPrices).
ProcessDay ==
    /\ pc = "loop"
    /\ dayIndex < Len(spyPrices)
    /\ LET st == DayBody(LoopState, Run, stockPrices, spyPrices, cashFlows, splits)
       IN  /\ dayIndex' = st.dayIndex
           /\ tradeIndex' = st.tradeIndex
           /\ sharesPerTicker' = st.sharesPerTicker
           /\ tradeBasedSpyShares' = st.tradeBasedSpyShares
           /\ tradeCostBasis' = st.tradeCostBasis
           /\ portfolioValue' = st.portfolioValue
           /\ counterfactualSpyShares' = st.counterfactualSpyShares
           /\ costBasis' = st.costBasis
           /\ dataPoints' = st.dataPoints
    /\ UNCHANGED <<argVars, pc, runVars, lookVars, reportVars, rangeVars, fetchVars,
                 hookVars>>

\* return dataPoints;
Return ==
    /\ pc = "loop"
    /\ dayIndex >= Len(spyPrices)
    /\ pc' = "done"
    /\ UNCHANGED <<argVars, runVars, loopVars, lookVars, reportVars, rangeVars, fetchVars,
                 hookVars>>

\* const breakdown = calculateStockBreakdown(trades, stockPrices, spyPrices):
\* after the time series in a run of the three entry points, or called alone.
Breakdown ==
    /\ pc \in {"done", "callBreakdown"}
    /\ breakdown' = calculateStockBreakdown(trades, stockPrices, spyPrices)
    /\ pc' = IF pc = "done" THEN "breakdown" ELSE "breakdownReturned"
    /\ UNCHANGED <<argVars, runVars, loopVars, lookVars, shareUnit, summary, rangeVars, fetchVars,
                 hookVars>>

\* const summary = calculateSummary(breakdown, cashFlows, trades): after the
\* breakdown in a run of the three entry points, or called alone.
Summarise ==
    /\ pc \in {"breakdown", "callSummary"}
    /\ summary' = calculateSummary(breakdown, cashFlows, trades)
    /\ pc' = IF pc = "breakdown" THEN "summary" ELSE "summaryReturned"
    /\ UNCHANGED <<argVars, runVars, loopVars, lookVars, shareUnit, breakdown, rangeVars, fetchVars,
                 hookVars>>

Next == ReturnEmpty \/ Setup \/ ProcessDay \/ Return \/ Breakdown \/ Summarise

Spec == Init /\ [][Next]_vars

\* The same calls on an index series that may hold prices of 0.
SpecGuards == InitGuards /\ [][Next]_vars

\* ------------------- calls of calculateStockBreakdown and calculateSummary
MaxRows == 2     \* longest hand-made breakdown

\* Share counts of the trades of a breakdown: 0.4 millionth of a share, one
\* share.
ReportShares == {1, ShareQuantum}

ReportTradeSet ==
    [ticker : Tickers, date : Dates, shares : ReportShares, price : TradePrices,
     type : {"buy", "sell"}]

\* The price series of the tickers: both tickers, one ticker missing, one
\* ticker with an empty series.
ReportStockPrices ==
    { [ticker \in Tickers |-> StockSeries(ticker, IF ticker = "A" THEN Dates ELSE {2})],
      [ticker \in {"A"} |-> StockSeries(ticker, {1})],
      [ticker \in Tickers |-> StockSeries(ticker, IF ticker = "A" THEN {} ELSE Dates)] }

\* A call of calculateStockBreakdown: any list of trades, in any order.
InitBreakdownCall ==
    /\ shareUnit = ShareQuantum
    /\ trades \in SeqsUpTo(ReportTradeSet, MaxTrades)
    /\ spyPrices \in AlternatingIndexSeries
    /\ stockPrices \in ReportStockPrices
    /\ cashFlows = <<>>
    /\ breakdown = <<>>
    /\ pc = "callBreakdown"

\* A breakdown row written by hand, as the tests of calculateSummary do: one
\* share bought at 1 dollar, with a value, an index value and a difference
\* that is their difference less off.
HandRow(ticker, value, spyValue, off) ==
    [ticker |-> ticker, shares |-> ShareDecimals, buyDate |-> 1,
     buyPrice |-> 100 * CentUnit, currentPrice |-> 1, currentValue |-> value,
     spyShares |-> 100, spyCurrentValue |-> spyValue,
     gain |-> value - 100 * CentUnit, spyGain |-> spyValue - 100 * CentUnit,
     difference |-> value - spyValue - off]

\* Rows of whole cents, as calculateStockBreakdown returns them, and rows with
\* a fraction of a cent: a value of 2.504 dollars, an index value of 1.508.
HandRows ==
    {HandRow(t, v, s, o) : t \in Tickers, v \in {100 * CentUnit, 250 * CentUnit + 4},
                           s \in {0, 50 * CentUnit, 150 * CentUnit + 8},
                           o \in {0, CentUnit}}

\* A call of calculateSummary: any rows in any order, with trades and cash
\* flows that need not be the ones the rows came from.
InitSummaryCall ==
    /\ shareUnit = 1
    /\ breakdown \in SeqsUpTo(HandRows, MaxRows)
    /\ trades \in FewTradeLists \cup {<<>>, <<Sell("A", 1, 2, 3), Buy("A", 2, 1, 3)>>}
    /\ cashFlows \in {<<>>, <<[date |-> 1, amount |-> 2, type |-> "deposit"]>>}
    /\ spyPrices = <<>>
    /\ stockPrices = <<>>
    /\ pc = "callSummary"

InitReport ==
    /\ InitBreakdownCall \/ InitSummaryCall
    /\ splits = <<>>
    /\ summary = <<>>
    /\ Fresh
    /\ query = 0
    /\ answer = Null
    /\ found = Null
    /\ NoRange
    /\ NoFetch
    /\ NoHook

NextReport == Breakdown \/ Summarise

SpecReport == InitReport /\ [][NextReport]_vars

\* -------------------------------------------- a call of getPriceOnDate
LookupPrices == {0, 1, 2}

\* Any ascending series and any target date, also one before and one after
\* every date of a series.
InitLookup ==
    /\ spyPrices \in {s \in SeqsUpTo([date : Dates, price : LookupPrices], MaxDate) :
                        Ascending(s)}
    /\ query \in 0..(MaxDate + 1)
    /\ answer = Null
    /\ found = Null
    /\ trades = <<>> /\ stockPrices = <<>> /\ cashFlows = <<>> /\ splits = <<>>
    /\ pc = "lookup"
    /\ Fresh
    /\ shareUnit = 1
    /\ NoReport
    /\ NoRange
    /\ NoFetch
    /\ NoHook

\* getPriceOnDate(spyPrices, query)
Lookup ==
    /\ pc = "lookup"
    /\ answer' = getPriceOnDate(spyPrices, query)
    /\ pc' = "answered"
    /\ UNCHANGED <<argVars, runVars, loopVars, query, found, reportVars, rangeVars, fetchVars,
                 hookVars>>

\* getPriceOnOrBefore(spyPrices, query), on the same series and target.
Search ==
    /\ pc = "answered"
    /\ found' = getPriceOnOrBefore(spyPrices, query)
    /\ pc' = "searched"
    /\ UNCHANGED <<argVars, runVars, loopVars, query, answer, reportVars, rangeVars,
                   fetchVars, hookVars>>

NextLookup == Lookup \/ Search

SpecLookup == InitLookup /\ [][NextLookup]_vars

\* ------------------------------------------------------------ getDateRange
\* In a call of getDateRange a date 'YYYY-MM-DD' is the record [y, m, d] of
\* its three numbers and a Date object is its time value in hours since
\* 1970-01-01T00:00Z (the code reads no minute).  A time zone is its offset
\* from UTC in hours.

\* The day number of a calendar date, 0 for 1970-01-01 (the proleptic
\* Gregorian calendar of a Date).
DaysFromCivil(date) ==
    LET y   == IF date.m <= 2 THEN date.y - 1 ELSE date.y
        era == y \div 400
        yoe == y - era * 400
        mp  == IF date.m > 2 THEN date.m - 3 ELSE date.m + 9
        doy == (153 * mp + 2) \div 5 + date.d - 1
        doe == yoe * 365 + yoe \div 4 - yoe \div 100 + doy
    IN  era * 146097 + doe - 719468

\* The calendar date of a day number.
CivilFromDays(days) ==
    LET z   == days + 719468
        era == z \div 146097
        doe == z - era * 146097
        yoe == (doe - doe \div 1460 + doe \div 36524 - doe \div 146096) \div 365
        doy == doe - (365 * yoe + yoe \div 4 - yoe \div 100)
        mp  == (5 * doy + 2) \div 153
        m   == IF mp < 10 THEN mp + 3 ELSE mp - 9
    IN  [y |-> yoe + era * 400 + (IF m <= 2 THEN 1 ELSE 0),
         m |-> m,
         d |-> doy - (153 * mp + 2) \div 5 + 1]

\* new Date('YYYY-MM-DD').getTime(): midnight UTC of the date.
ParseISODate(date) == DaysFromCivil(date) * 24

\* toISOString().split('T')[0]: the UTC date of a time value.
ISODateOf(time) == CivilFromDays(time \div 24)

\* The local date and hour of a time value in a zone (getFullYear, getMonth,
\* getDate, getHours).
LocalDate(time, zone) == CivilFromDays((time + zone) \div 24)
LocalHour(time, zone) == (time + zone) % 24

\* The time value of a local date and hour, the day of the month running over
\* the end of the month into the next (MakeDay, MakeDate, UTC).
FromLocal(y, m, d, hour, zone) ==
    (DaysFromCivil([y |-> y, m |-> m, d |-> 1]) + d - 1) * 24 + hour - zone

\* new Date(new Date().toLocaleString('en-US', {timeZone: 'America/New_York'})):
\* the wall clock of New York read as a time of the runtime's zone.
EtNow(clk) ==
    LET wall == clk.now + clk.ny
        date == CivilFromDays(wall \div 24)
    IN  FromLocal(date.y, date.m, date.d, wall % 24, clk.zone)

\* The hour of the market close in etNow.getHours() >= 16.
MarketCloseHour == 16

\* Mutant of AfterClose: the close hour itself still counts as before.
AfterClose_Strict(hour) == hour > MarketCloseHour

\* etNow.getHours() >= 16
AfterClose(hour) == hour >= MarketCloseHour

\* getEndDateForApi
getEndDateForApi(clk) ==
    LET etNow   == EtNow(clk)
        date    == LocalDate(etNow, clk.zone)
        hour    == LocalHour(etNow, clk.zone)
        \* etNow.setDate(etNow.getDate() + 1)
        shifted == IF AfterClose(hour)
                   THEN FromLocal(date.y, date.m, date.d + 1, hour, clk.zone)
                   ELSE etNow
    IN  LocalDate(shifted, clk.zone)

\* oneYearAgo.setFullYear(oneYearAgo.getFullYear() - 1), on a time value.
OneYearAgo(time, zone) ==
    LET date == LocalDate(time, zone)
    IN  FromLocal(date.y - 1, date.m, date.d, LocalHour(time, zone), zone)

\* Math.min(...trades.map(t => new Date(t.date).getTime())), of a non-empty
\* list.
MinTime(tr) ==
    LET dates == {ParseISODate(tr[i].date) : i \in 1..Len(tr)}
    IN  CHOOSE t \in dates : \A other \in dates : t <= other

\* getDateRange
getDateRange(tr, clk) ==
    LET endDate == getEndDateForApi(clk)
    IN  IF Len(tr) = 0
        THEN [startDate |-> ISODateOf(OneYearAgo(ParseISODate(endDate), clk.zone)),
              endDate   |-> endDate]
        ELSE [startDate |-> ISODateOf(MinTime(tr)),
              endDate   |-> endDate]

CivilDate(y, m, d) == [y |-> y, m |-> m, d |-> d]

\* The dates of the trades of a call of getDateRange.
RangeTradeDates ==
    {CivilDate(2022, 12, 31), CivilDate(2023, 1, 15), CivilDate(2023, 3, 1),
     CivilDate(2024, 2, 29)}

\* The New York dates and hours at which getDateRange is called: ends of
\* months and of years, leap days, and the hours around the close.
ClockDates ==
    {CivilDate(2023, 6, 15), CivilDate(2024, 2, 28), CivilDate(2024, 2, 29),
     CivilDate(2024, 3, 1), CivilDate(2024, 12, 31), CivilDate(2025, 2, 28),
     CivilDate(2025, 3, 1)}

ClockHours == {0, 9, 15, 16, 23}

\* The offsets of New York (EST, EDT) and of the zones of the runtime.
NewYorkOffsets == {0 - 5, 0 - 4}
RuntimeZones   == {0 - 5, 0, 9}

\* A call of getDateRange at any of the moments, in any of the zones.
InitRange ==
    /\ \E date \in ClockDates, hour \in ClockHours, ny \in NewYorkOffsets,
          zone \in RuntimeZones :
          clock = [now |-> DaysFromCivil(date) * 24 + hour - ny, ny |-> ny,
                   zone |-> zone, nyDate |-> date, nyHour |-> hour]
    /\ \E dates \in SeqsUpTo(RangeTradeDates, MaxTrades) :
          trades = [i \in 1..Len(dates) |->
                       [ticker |-> "A", date |-> dates[i], shares |-> 1, price |-> 3,
                        type |-> "buy"]]
    /\ range = <<>>
    /\ pc = "callRange"
    /\ stockPrices = <<>> /\ spyPrices = <<>> /\ cashFlows = <<>> /\ splits = <<>>
    /\ Fresh
    /\ query = 0
    /\ answer = Null
    /\ found = Null
    /\ shareUnit = 1
    /\ NoReport
    /\ NoFetch
    /\ NoHook

\* const { startDate, endDate } = getDateRange(trades)
DateRange ==
    /\ pc = "callRange"
    /\ range' = getDateRange(trades, clock)
    /\ pc' = "rangeReturned"
    /\ UNCHANGED <<argVars, runVars, loopVars, lookVars, reportVars, clock, fetchVars,
                 hookVars>>

NextRange == DateRange

SpecRange == InitRange /\ [][NextRange]_vars

\* ------------------------------------------------------ fetchMultipleStocks
\* An optional field of the provider's JSON is the empty sequence when it is
\* absent and the one-element sequence of its value when it is present.
Absent     == <<>>
Present(v) == <<v>>

\* field || []
OrEmptyList(field) == IF Len(field) = 0 THEN <<>> ELSE field[1]

\* What the provider answers to the request for a ticker: fetch rejects, the
\* body is no JSON, a status that is not ok, a body with an error, a body with
\* prices and splits, a body with neither.
Answers(ticker) ==
    { [kind |-> "networkError", ok |-> FALSE, error |-> Absent, prices |-> Absent,
       splits |-> Absent],
      [kind |-> "badBody", ok |-> TRUE, error |-> Absent, prices |-> Absent,
       splits |-> Absent],
      [kind |-> "response", ok |-> FALSE, error |-> Absent,
       prices |-> Present(StockSeries(ticker, {1})), splits |-> Absent],
      [kind |-> "response", ok |-> TRUE, error |-> Present("No data found"),
       prices |-> Present(StockSeries(ticker, {1})), splits |-> Absent],
      [kind |-> "response", ok |-> TRUE, error |-> Absent,
       prices |-> Present(StockSeries(ticker, Dates)),
       splits |-> Present(<<[date |-> 2, splitFactor |-> 2]>>)],
      [kind |-> "response", ok |-> TRUE, error |-> Absent, prices |-> Absent,
       splits |-> Absent] }

\* The answer of a request that is still in flight, and of one that never left
\* because the cache held its key.
NoAnswerYet ==
    [kind |-> "pending", ok |-> FALSE, error |-> Absent, prices |-> Absent,
     splits |-> Absent]
FromCache ==
    [kind |-> "cached", ok |-> TRUE, error |-> Absent, prices |-> Absent,
     splits |-> Absent]

\* A promise of fetchStockData with the answer its request got.
Pending == [answer |-> NoAnswerYet, status |-> "pending", prices |-> <<>>, splits |-> <<>>]

\* fetchStockData up to its first await: the cached data when priceCache and
\* splitsCache hold the key (the two are written together and are one map
\* here), else a request in flight.
fetchStockData(ticker, cache) ==
    IF ticker \in DOMAIN cache
    THEN [answer |-> FromCache, status |-> "fulfilled",
          prices |-> cache[ticker].prices, splits |-> cache[ticker].splits]
    ELSE Pending

\* if (!response.ok || data.error) throw, and the two awaits that reject.
Throws(reply) ==
    \/ reply.kind \in {"networkError", "badBody"}
    \/ ~reply.ok
    \/ Len(reply.error) > 0

\* fetchStockData from the answer on: the promise settled.
Settled(reply) ==
    IF Throws(reply)
    THEN [answer |-> reply, status |-> "rejected", prices |-> <<>>, splits |-> <<>>]
    ELSE [answer |-> reply, status |-> "fulfilled",
          prices |-> OrEmptyList(reply.prices), splits |-> OrEmptyList(reply.splits)]

\* Mutant of WithResult: a rejected request leaves no entry.
WithResult_SkipsRejected(result, ticker, promise) ==
    IF promise.status = "fulfilled"
    THEN [prices |-> Put(result.prices, ticker, promise.prices),
          splits |-> Put(result.splits, ticker, promise.splits)]
    ELSE result

\* One iteration of for (let i = 0; i < tickers.length; i++).
WithResult(result, ticker, promise) ==
    IF promise.status = "fulfilled"
    THEN [prices |-> Put(result.prices, ticker, promise.prices),
          splits |-> Put(result.splits, ticker, promise.splits)]
    ELSE [prices |-> Put(result.prices, ticker, <<>>),
          splits |-> Put(result.splits, ticker, <<>>)]

\* The loop over the settled results, from request i on.
RECURSIVE CollectResults(_, _, _, _)
CollectResults(result, tk, promises, i) ==
    IF i > Len(tk) THEN result
    ELSE CollectResults(WithResult(result, tk[i], promises[i]), tk, promises, i + 1)

MaxTickers == 3     \* longest list of tickers of one call

\* The tickers of a call: the tickers of the trades and the index, which is
\* asked for twice when a trade names it.
FetchTickers == {"A", "SPY"}

\* A call of fetchMultipleStocks with an empty cache or with ticker A cached
\* by an earlier call for the same dates.
InitFetch ==
    /\ tickers \in SeqsUpTo(FetchTickers, MaxTickers)
    /\ priceCache \in { <<>>,
                        [ticker \in {"A"} |->
                            [prices |-> StockSeries("A", {2}), splits |-> <<>>]] }
    /\ responses = <<>>
    /\ settleOrder = <<>>
    /\ fetched = <<>>
    /\ pc = "callFetch"
    /\ trades = <<>> /\ stockPrices = <<>> /\ spyPrices = <<>>
    /\ cashFlows = <<>> /\ splits = <<>>
    /\ Fresh
    /\ query = 0
    /\ answer = Null
    /\ found = Null
    /\ shareUnit = 1
    /\ NoReport
    /\ NoRange
    /\ NoHook

\* tickers.map((ticker) => fetchStockData(ticker, startDate, endDate)): every
\* request is started before any answer arrives.
StartFetches ==
    /\ pc = "callFetch"
    /\ responses' = [i \in 1..Len(tickers) |-> fetchStockData(tickers[i], priceCache)]
    /\ pc' = "fetching"
    /\ UNCHANGED <<argVars, runVars, loopVars, lookVars, reportVars, rangeVars,
                   tickers, settleOrder, priceCache, fetched, hookVars>>

\* The answer to one request in flight arrives, in any order among the
\* requests; a good answer is written to the cache.
Settle ==
    /\ pc = "fetching"
    /\ \E i \in 1..Len(tickers) :
          /\ responses[i].status = "pending"
          /\ \E a \in Answers(tickers[i]) :
                LET promise == Settled(a)
                IN  /\ responses' = [responses EXCEPT ![i] = promise]
                    /\ priceCache' = IF promise.status = "fulfilled"
                                     THEN Put(priceCache, tickers[i],
                                              [prices |-> promise.prices,
                                               splits |-> promise.splits])
                                     ELSE priceCache
          /\ settleOrder' = Append(settleOrder, i)
    /\ UNCHANGED <<argVars, pc, runVars, loopVars, lookVars, reportVars, rangeVars,
                   tickers, fetched, hookVars>>

\* await Promise.allSettled(...) resumes when no request is in flight; the
\* loop over the results and return { prices, splits }.
ReturnFetched ==
    /\ pc = "fetching"
    /\ \A i \in 1..Len(tickers) : responses[i].status # "pending"
    /\ fetched' = [status |-> "fulfilled",
                   value  |-> CollectResults([prices |-> <<>>, splits |-> <<>>],
                                             tickers, responses, 1)]
    /\ pc' = "fetchReturned"
    /\ UNCHANGED <<argVars, runVars, loopVars, lookVars, reportVars, rangeVars,
                   tickers, responses, settleOrder, priceCache, hookVars>>

NextFetch == StartFetches \/ Settle \/ ReturnFetched

SpecFetch == InitFetch /\ [][NextFetch]_vars

\* ------------------------------------------------- the hook useStockData
MaxCalls == 3     \* calls of loadData in one run

\* The portfolios loadData is called with: no trades, and two lists of trades
\* that carry their price (the fill of missing prices returns them as they
\* are).
Portfolios ==
    { [trades |-> <<>>, cashFlows |-> <<>>],
      [trades |-> <<Buy("A", 1, 2, 3)>>, cashFlows |-> <<>>],
      [trades |-> <<Buy("A", 1, 1, 3), Buy("B", 2, 1, 3)>>,
       cashFlows |-> <<[date |-> 1, amount |-> 4, type |-> "deposit"]>>] }

\* const tickers = [...new Set(trades.map(t => t.ticker))]
TickersOf(tr) == {tr[i].ticker : i \in 1..Len(tr)}

\* What a call computes once the prices have arrived: the provider answers
\* every ticker with its series and no split (stockSplits[ticker] is then
\* the empty list), and SPY with the index series of the run.
Results(data) ==
    LET tr  == data.trades
        sp  == [ticker \in TickersOf(tr) |-> StockSeries(ticker, Dates)]
        spl == [ticker \in TickersOf(tr) |-> <<>>]
        spy == CHOOSE s \in AlternatingIndexSeries : Len(s) = MaxDate
        bd  == calculateStockBreakdown(tr, sp, spy)
    IN  [timeSeriesData |-> calculatePortfolioTimeSeries(tr, sp, spy, data.cashFlows, spl),
         breakdownData  |-> bd,
         summaryData    |-> calculateSummary(bd, data.cashFlows, tr)]

\* Mutant of ShownAfterSuccess: only the call started last writes its results.
ShownAfterSuccess_LatestOnly(i) ==
    IF i = Len(calls) THEN Results(calls[i].data) ELSE shown

\* setTimeSeriesData(timeSeries); setBreakdownData(breakdown);
\* setSummaryData(summary): what the hook shows once call i has succeeded,
\* whatever calls were started after it.
ShownAfterSuccess(i) == Results(calls[i].data)

\* The calls that are waiting for fetchMultipleStocks.
InFlight == {i \in 1..Len(calls) : calls[i].status = "awaiting"}

InitHook ==
    /\ NoHook
    /\ trades = <<>>
    /\ stockPrices = <<>>
    /\ spyPrices = <<>>
    /\ cashFlows = <<>>
    /\ splits = <<>>
    /\ pc = "hook"
    /\ Fresh
    /\ query = 0
    /\ answer = Null
    /\ found = Null
    /\ shareUnit = 1
    /\ NoReport
    /\ NoRange
    /\ NoFetch

\* loadData(data) with data.trades.length === 0: setError and return.
LoadNoTrades ==
    /\ Len(calls) < MaxCalls
    /\ \E data \in Portfolios :
          /\ Len(data.trades) = 0
          /\ calls' = Append(calls, [data |-> data, status |-> "refused"])
    /\ error' = <<"No trades provided">>
    /\ UNCHANGED <<argVars, pc, runVars, loopVars, lookVars, reportVars, rangeVars,
                   fetchVars, loading, shown, finished>>

\* loadData(data) up to await fetchMultipleStocks(...).
LoadData ==
    /\ Len(calls) < MaxCalls
    /\ \E data \in Portfolios :
          /\ Len(data.trades) > 0
          /\ calls' = Append(calls, [data |-> data, status |-> "awaiting"])
    /\ loading' = TRUE
    /\ error' = <<>>
    /\ UNCHANGED <<argVars, pc, runVars, loopVars, lookVars, reportVars, rangeVars,
                   fetchVars, shown, finished>>

\* The rest of call i after the await when nothing throws: the calculations,
\* the three setters, finally.
Succeed(i) ==
    /\ i \in InFlight
    /\ calls' = [calls EXCEPT ![i].status = "succeeded"]
    /\ shown' = ShownAfterSuccess(i)
    /\ loading' = FALSE
    /\ finished' = Append(finished, i)
    /\ UNCHANGED <<argVars, pc, runVars, loopVars, lookVars, reportVars, rangeVars,
                   fetchVars, error>>

\* The rest of call i when something in the try block throws: catch, finally.
Fail(i) ==
    /\ i \in InFlight
    /\ calls' = [calls EXCEPT ![i].status = "failed"]
    /\ error' = <<"Failed to load stock data">>
    /\ loading' = FALSE
    /\ finished' = Append(finished, i)
    /\ UNCHANGED <<argVars, pc, runVars, loopVars, lookVars, reportVars, rangeVars,
                   fetchVars, shown>>

NextHook ==
    \/ LoadNoTrades
    \/ LoadData
    \/ \E i \in 1..MaxCalls : Succeed(i)
    \/ \E i \in 1..MaxCalls : Fail(i)

SpecHook == InitHook /\ [][NextHook]_vars

\* ---------------------------------------------------------------------
\* What the specification says of a day d, stated over the arguments of the
\* call alone (the lists as passed, in any order).
\* ---------------------------------------------------------------------
RECURSIVE SetProductOf(_, _)
\* The product of f[x] over x in S.
SetProductOf(f, S) ==
    IF S = {} THEN 1
    ELSE LET x == CHOOSE y \in S : TRUE IN f[x] * SetProductOf(f, S \ {x})

\* The date of the last index day processed.
Today == spyPrices[dayIndex].date

\* Net shares of a ticker over the trades dated <= d: buys minus sells.
HeldOn(ticker, d) ==
    SetSum([i \in 1..Len(trades) |->
               IF trades[i].ticker = ticker /\ trades[i].date <= d
               THEN (IF trades[i].type = "sell" THEN 0 - trades[i].shares
                                                ELSE trades[i].shares)
               ELSE 0],
           1..Len(trades))

\* N(d): buys minus sells of shares x price over the trades dated <= d.
NetTradeCostOn(d) ==
    SetSum([i \in 1..Len(trades) |->
               IF trades[i].date <= d
               THEN (IF trades[i].type = "sell" THEN 0 - TradeAmount(trades[i])
                                                ELSE TradeAmount(trades[i]))
               ELSE 0],
           1..Len(trades))

\* The sum of the amounts of the cash flows of every type.
TotalCashFlows ==
    SetSum([i \in 1..Len(cashFlows) |-> cashFlows[i].amount], 1..Len(cashFlows))

\* The sum of the amounts of the cash flows dated <= d.
CashFlowsOn(d) ==
    SetSum([i \in 1..Len(cashFlows) |->
               IF cashFlows[i].date <= d THEN cashFlows[i].amount ELSE 0],
           1..Len(cashFlows))

\* The cost basis of day d.
CostBasisOn(d) ==
    IF TotalCashFlows > 0 THEN CashFlowsOn(d) ELSE Max(0, NetTradeCostOn(d))

\* The entry of an ascending series that is latest among those dated <= d,
\* the first entry when there is none, as an index; 0 for an empty series.
OnOrBefore(prices, d) ==
    IF \E i \in 1..Len(prices) : prices[i].date <= d
    THEN CHOOSE i \in 1..Len(prices) :
             /\ prices[i].date <= d
             /\ \A j \in 1..Len(prices) : prices[j].date <= d => j <= i
    ELSE IF Len(prices) > 0 THEN 1 ELSE 0

\* The split-unadjusted price of a ticker as of day d: the provider's price
\* of its on-or-before entry times the factors of its splits dated after that
\* entry; 0 for a ticker with no prices.
TruePriceOn(ticker, d) ==
    LET prices == OrEmpty(stockPrices, ticker)
        own    == OrEmpty(splits, ticker)
        i      == OnOrBefore(prices, d)
    IN  IF i = 0 THEN 0
        ELSE prices[i].price
             * SetProductOf([k \in 1..Len(own) |->
                                IF own[k].date > prices[i].date
                                THEN own[k].splitFactor ELSE 1],
                            1..Len(own))

\* The tickers the trades name.
TradedTickers == {trades[i].ticker : i \in 1..Len(trades)}

\* The on-or-before index price at date d (of a non-empty index series).
IndexPriceOn(d) == spyPrices[OnOrBefore(spyPrices, d)].price

\* The dates of the index days processed so far, in the order of the series.
DaysProcessed == [i \in 1..dayIndex |-> spyPrices[i].date]

\* The dates of the points emitted so far.
DatesEmitted == [k \in 1..Len(dataPoints) |-> dataPoints[k].date]

HasPositiveCostBasis(d) == CostBasisOn(d) > 0

\* --------------------------------------------------------------- claims
\* C1: the dates of the emitted points are exactly the index days processed
\* whose cost basis is strictly positive, in the order of the index series:
\* a point is emitted for an index entry if and only if its cost basis is
\* > 0, at most one point per entry, and no point on a day absent from the
\* index series.
C1_EmitIffPositiveCostBasis ==
    DatesEmitted = SelectSeq(DaysProcessed, HasPositiveCostBasis)

\* C1 witness: a finished run that emitted a point for one index day and none
\* for another.
C1_Witness ==
    /\ pc = "done"
    /\ Len(dataPoints) >= 1
    /\ Len(dataPoints) < Len(spyPrices)

\* What holds after a day of the loop (C2).
C2_StateAfterDay ==
    pc \in {"loop", "done"} =>
        /\ \A i, j \in 1..Len(sortedTrades) :
               i < j => sortedTrades[i].date <= sortedTrades[j].date
        /\ dayIndex >= 1 =>
               /\ tradeIndex = Cardinality({i \in 1..Len(trades) : trades[i].date <= Today})
               /\ \A ticker \in Tickers :
                      HeldOn(ticker, Today) =
                          (IF ticker \in DOMAIN sharesPerTicker
                           THEN sharesPerTicker[ticker] ELSE 0)

\* What every step of the loop does to the cursor (C2).
C2_Step ==
    /\ tradeIndex' >= tradeIndex
    /\ \A k \in (tradeIndex + 1)..tradeIndex' :
           /\ dayIndex' = dayIndex + 1
           /\ sortedTrades[k].date <= spyPrices[dayIndex'].date
           /\ dayIndex >= 1 => sortedTrades[k].date > spyPrices[dayIndex].date

\* C2: the cursor through the sorted trades never moves backwards; the trades
\* a day applies are those dated after the previous index day and on or before
\* this one (so each is applied once, at the first index day >= its date); the
\* sorted trades are in ascending date order; and after day d the cursor
\* stands after the trades dated <= d and the held shares of every ticker are
\* its buys minus its sells over the trades dated <= d, in whatever order the
\* trades were passed.  (A trade dated after the last index day is never
\* applied.)
C2_TradesAppliedOnceInOrder == [](C2_StateAfterDay) /\ [][C2_Step]_vars

\* C2 witness: two trades passed latest first, both applied, on different days.
C2_Witness ==
    /\ pc = "done"
    /\ Len(trades) = 2
    /\ trades[1].date > trades[2].date
    /\ tradeIndex = 2
    /\ \E i \in 1..Len(spyPrices) :
           /\ trades[2].date <= spyPrices[i].date
           /\ spyPrices[i].date < trades[1].date

\* C3: the portfolioValue of every emitted point is the sum, over the tickers
\* whose held shares on that day are > 0, of held shares x the ticker's
\* split-unadjusted price as of that day; a ticker with a zero or negative
\* position adds nothing.
C3_PortfolioValue ==
    \A k \in 1..Len(dataPoints) :
        LET d == dataPoints[k].date
        IN  dataPoints[k].portfolioValue =
                100 * SetSum([ticker \in Tickers |-> HeldOn(ticker, d) * TruePriceOn(ticker, d)],
                             {ticker \in Tickers : HeldOn(ticker, d) > 0})

\* C3 witness: a point of a day on which one ticker is held and another, which
\* has prices, is oversold.
C3_Witness ==
    /\ pc = "done"
    /\ \E k \in 1..Len(dataPoints) : \E held, sold \in Tickers :
           /\ HeldOn(held, dataPoints[k].date) > 0
           /\ TruePriceOn(held, dataPoints[k].date) > 0
           /\ HeldOn(sold, dataPoints[k].date) < 0
           /\ TruePriceOn(sold, dataPoints[k].date) > 0

\* The points of a result dated d.
PointsOn(points, d) == {points[k] : k \in {j \in 1..Len(points) : points[j].date = d}}

\* C4: no look-ahead: for every index day d, a trade or a cash flow dated after
\* d that is added to the arguments neither changes nor removes the data point
\* of d.
C4_NoLookAhead ==
    pc = "done" =>
        \A i \in 1..Len(spyPrices) :
            LET d == spyPrices[i].date
            IN  /\ \A t \in {x \in TradeSet : x.date > d} :
                       PointsOn(calculatePortfolioTimeSeries(
                                    Append(trades, t), stockPrices, spyPrices,
                                    cashFlows, splits), d)
                           = PointsOn(dataPoints, d)
                /\ \A c \in {x \in CashFlowSet : x.date > d} :
                       PointsOn(calculatePortfolioTimeSeries(
                                    trades, stockPrices, spyPrices,
                                    Append(cashFlows, c), splits), d)
                           = PointsOn(dataPoints, d)

\* C5: the basis is chosen once, by the sign of the sum of all cash flows, and
\* when that sum is positive the cost basis of every day processed, and of
\* every point emitted, is the sum of the amounts of the cash flows of every
\* type dated on or before the day, whatever the trades.
C5_CashFlowBasis ==
    /\ (pc = "loop" \/ dayIndex >= 1) => useCashFlowBasis = (TotalCashFlows > 0)
    /\ TotalCashFlows > 0 =>
           /\ dayIndex >= 1 => costBasis = CashFlowsOn(Today)
           /\ \A k \in 1..Len(dataPoints) :
                  dataPoints[k].costBasis = 100 * CashFlowsOn(dataPoints[k].date)

\* C5 witness: a finished cash-flow-basis run with a day on which the trades
\* had cost but no cash flow had arrived yet, and a later day with a point.
C5_Witness ==
    /\ pc = "done"
    /\ TotalCashFlows > 0
    /\ Len(dataPoints) >= 1
    /\ \E i \in 1..Len(spyPrices) :
           /\ CashFlowsOn(spyPrices[i].date) = 0
           /\ NetTradeCostOn(spyPrices[i].date) > 0

\* C6: when the sum of the cash flows is not positive, the cost basis of every
\* day processed, and of every point emitted, is max(0, N(d)); the running
\* total itself is N(d), not floored, so a buy after the total went negative
\* adds to the negative total.
C6_TradeBasis ==
    /\ dayIndex >= 1 => tradeCostBasis = NetTradeCostOn(Today)
    /\ TotalCashFlows <= 0 =>
           /\ dayIndex >= 1 => costBasis = Max(0, NetTradeCostOn(Today))
           /\ \A k \in 1..Len(dataPoints) :
                  dataPoints[k].costBasis
                      = 100 * Max(0, NetTradeCostOn(dataPoints[k].date))

\* C6 witness: a sell made the running total negative and a later buy left it
\* negative still.
C6_Witness ==
    /\ pc = "done"
    /\ TotalCashFlows <= 0
    /\ tradeIndex = 2
    /\ sortedTrades[1].type = "sell" /\ TradeAmount(sortedTrades[1]) > 0
    /\ sortedTrades[2].type = "buy" /\ TradeAmount(sortedTrades[2]) > 0
    /\ tradeCostBasis < 0
    /\ costBasis = 0

\* Whether some cash flow is a deposit.
HasDeposit == \E i \in 1..Len(cashFlows) : cashFlows[i].type = "deposit"

\* The price of the index entry dated d.
IndexEntryPrice(d) ==
    spyPrices[CHOOSE i \in 1..Len(spyPrices) : spyPrices[i].date = d].price

\* The index shares, in 1/ShareScale, that the deposits dated <= d buy, each
\* at the on-or-before index price of its own date.
DepositSharesOn(d) ==
    SetSum([i \in 1..Len(cashFlows) |->
               IF cashFlows[i].type = "deposit" /\ cashFlows[i].date <= d
               THEN (cashFlows[i].amount * ShareScale) \div IndexPriceOn(cashFlows[i].date)
               ELSE 0],
           1..Len(cashFlows))

\* The index shares, in 1/ShareScale, that the trades dated <= d buy (sell),
\* each at the on-or-before index price of its own date.
TradeSharesOn(d) ==
    SetSum([i \in 1..Len(trades) |->
               IF trades[i].date <= d
               THEN (IF trades[i].type = "sell" THEN 0 - 1 ELSE 1)
                    * ((TradeAmount(trades[i]) * ShareScale) \div IndexPriceOn(trades[i].date))
               ELSE 0],
           1..Len(trades))

\* C7: when some cash flow is a deposit, the counterfactual index-share count
\* of every day processed is the sum over the deposits dated <= the day of
\* amount / on-or-before index price at the deposit's date, whatever the
\* trades and the other cash flows, and the counterfactualValue of every point
\* is that count x the day's index price.
C7_DepositBasis ==
    HasDeposit =>
        /\ (pc = "loop" \/ dayIndex >= 1) => useDepositBasis
        /\ dayIndex >= 1 => counterfactualSpyShares = DepositSharesOn(Today)
        /\ \A k \in 1..Len(dataPoints) :
               LET d == dataPoints[k].date
               IN  dataPoints[k].counterfactualValue
                       = Round100(DepositSharesOn(d) * IndexEntryPrice(d), ShareScale)

\* C7 witness: two deposits of different dates and a day between them, so
\* that the count is held flat and then grows.
C7_Witness ==
    /\ pc = "done"
    /\ Len(cashFlows) = 2
    /\ \A i \in 1..2 : cashFlows[i].type = "deposit" /\ cashFlows[i].amount > 0
    /\ \E i, j \in 1..Len(spyPrices) :
           /\ i < j
           /\ DepositSharesOn(spyPrices[i].date) > 0
           /\ DepositSharesOn(spyPrices[j].date) > DepositSharesOn(spyPrices[i].date)
    /\ Len(dataPoints) >= 2

\* C8: when no cash flow is a deposit, the counterfactual index-share count of
\* every day processed is the running sum over the trades dated <= the day of
\* (shares x price) / on-or-before index price at the trade's date, added for
\* a buy and subtracted for a sell, and the counterfactualValue of every point
\* is max(0, count) x the day's index price.
C8_TradeBasisCounterfactual ==
    ~HasDeposit =>
        /\ (pc = "loop" \/ dayIndex >= 1) => ~useDepositBasis
        /\ dayIndex >= 1 =>
               /\ tradeBasedSpyShares = TradeSharesOn(Today)
               /\ counterfactualSpyShares = TradeSharesOn(Today)
        /\ \A k \in 1..Len(dataPoints) :
               LET d == dataPoints[k].date
               IN  dataPoints[k].counterfactualValue
                       = Round100(Max(0, TradeSharesOn(d)) * IndexEntryPrice(d), ShareScale)

\* C8 witness: a buy and a sell, both with a price, applied on different days
\* of a run with no deposit; a point was emitted after the sell.
C8_Witness ==
    /\ pc = "done"
    /\ ~HasDeposit
    /\ tradeIndex = 2
    /\ sortedTrades[1].type = "buy" /\ TradeAmount(sortedTrades[1]) > 0
    /\ sortedTrades[2].type = "sell" /\ TradeAmount(sortedTrades[2]) > 0
    /\ sortedTrades[1].date < sortedTrades[2].date
    /\ \E k \in 1..Len(dataPoints) : dataPoints[k].date >= sortedTrades[2].date

\* C9: for a ticker with a single split of factor f dated s, the only ticker
\* held, the value of the shares held on a day d on which the provider has a
\* price q for it is held x q x f when d < s, and held x q when d >= s.
C9_SplitRoundTrip ==
    dayIndex >= 1 =>
        \A ticker \in Tickers :
            LET own    == OrEmpty(splits, ticker)
                prices == OrEmpty(stockPrices, ticker)
            IN  ( /\ Len(own) = 1
                  /\ HeldOn(ticker, Today) > 0
                  /\ \A other \in Tickers \ {ticker} : HeldOn(other, Today) <= 0
                  /\ \E i \in 1..Len(prices) : prices[i].date = Today )
                =>
                LET q == prices[CHOOSE i \in 1..Len(prices) : prices[i].date = Today].price
                IN  portfolioValue =
                        HeldOn(ticker, Today)
                        * (IF Today < own[1].date THEN q * own[1].splitFactor ELSE q)

\* C9 witness: the run has valued a held ticker on the very date of its single
\* split, having valued it on an earlier day too.
C9_Witness ==
    /\ dayIndex >= 2
    /\ \E ticker \in Tickers :
           LET own    == OrEmpty(splits, ticker)
               prices == OrEmpty(stockPrices, ticker)
           IN  /\ Len(own) = 1
               /\ own[1].date = Today
               /\ HeldOn(ticker, spyPrices[1].date) > 0
               /\ \A other \in Tickers \ {ticker} : HeldOn(other, Today) <= 0
               /\ \E i \in 1..Len(prices) : prices[i].date = Today
               /\ \E i \in 1..Len(prices) : prices[i].date = spyPrices[1].date
               /\ portfolioValue > 0

\* C10: getPriceOnDate on a date-ascending series returns the price of the
\* latest entry dated <= the target; the first entry's price when every entry
\* is dated after the target; and null exactly when the series is empty.
C10_OnOrBeforeLookup ==
    pc = "answered" =>
        /\ \A i \in 1..Len(spyPrices) :
               ( /\ spyPrices[i].date <= query
                 /\ \A j \in 1..Len(spyPrices) :
                        spyPrices[j].date <= query => spyPrices[j].date <= spyPrices[i].date )
               => answer = spyPrices[i].price
        /\ ( /\ Len(spyPrices) > 0
             /\ \A i \in 1..Len(spyPrices) : spyPrices[i].date > query )
           => answer = spyPrices[1].price
        /\ (answer = Null) <=> (Len(spyPrices) = 0)

\* C10 witness: a target before every entry of a series of two different
\* prices was answered with the first entry's price.
C10_Witness ==
    /\ pc = "answered"
    /\ Len(spyPrices) >= 2
    /\ \A i \in 1..Len(spyPrices) : spyPrices[i].date > query
    /\ spyPrices[1].price # spyPrices[2].price
    /\ answer = spyPrices[1].price

\* ---------------------------------------------------------------------
\* What the specification says of a breakdown and of a summary, stated over
\* the arguments of the call alone.
\* ---------------------------------------------------------------------
\* calculatePortfolioTimeSeries has returned.
SeriesReturned == pc \in {"done", "breakdown", "summary"}

\* calculateStockBreakdown(trades, stockPrices, spyPrices) has returned.
BreakdownReturned == pc \in {"breakdown", "summary", "breakdownReturned"}

\* calculateSummary(breakdown, cashFlows, trades) has returned.
SummaryReturned == pc \in {"summary", "summaryReturned"}

\* The trades of a ticker, as indices of the list passed.
TradesOf(ticker) == {i \in 1..Len(trades) : trades[i].ticker = ticker}

\* Net shares of a ticker, buys minus sells, in 1/shareUnit share.
NetShares(ticker) ==
    SetSum([i \in 1..Len(trades) |->
               IF trades[i].type = "sell" THEN 0 - trades[i].shares
                                          ELSE trades[i].shares],
           TradesOf(ticker))

\* The tickers of the rows of the breakdown.
RowTickers == {breakdown[i].ticker : i \in 1..Len(breakdown)}

\* C11: degenerate inputs yield defined empty, zero or null results:
\* calculatePortfolioTimeSeries returns an empty sequence when there are no
\* trades or the index series is empty, calculateStockBreakdown returns an
\* empty list for no trades, and calculateSummary of an empty breakdown
\* returns every numeric field 0 and both performers null, whatever trades
\* and cash flows it is passed.
C11_DegenerateInputs ==
    /\ (SeriesReturned /\ (Len(trades) = 0 \/ Len(spyPrices) = 0))
           => dataPoints = <<>>
    /\ (BreakdownReturned /\ Len(trades) = 0) => breakdown = <<>>
    /\ (SummaryReturned /\ Len(breakdown) = 0)
           => /\ summary.totalCostBasis = 0
              /\ summary.totalPortfolioValue = 0
              /\ summary.totalCounterfactualValue = 0
              /\ summary.portfolioReturn = 0
              /\ summary.counterfactualReturn = 0
              /\ summary.totalDifference = 0
              /\ summary.percentageDifference = 0
              /\ summary.bestPerformer = NullPerformer
              /\ summary.worstPerformer = NullPerformer

\* C11 witness: the three entry points have returned for no trades and a
\* non-empty index series.
C11_Witness ==
    /\ pc = "summary"
    /\ Len(trades) = 0
    /\ Len(spyPrices) > 0
    /\ dataPoints = <<>>
    /\ breakdown = <<>>
    /\ summary.totalCostBasis = 0
    /\ summary.bestPerformer = NullPerformer

\* C12: zero-position exclusion: a ticker whose net shares (buys minus sells)
\* are <= 0 never appears in the output of calculateStockBreakdown, and every
\* ticker in the output has shares > 0, for any list of trades in any order.
C12_ZeroPositionExclusion ==
    BreakdownReturned =>
        /\ \A ticker \in Tickers : NetShares(ticker) <= 0 => ticker \notin RowTickers
        /\ \A i \in 1..Len(breakdown) : breakdown[i].shares > 0

\* The last entry of the provider's price series of a ticker.
LastPriceOf(ticker) == stockPrices[ticker][Len(stockPrices[ticker])].price

\* The cash value of trade i, shares x price, a trade without price counting
\* 0, in 1/shareUnit dollars.
CashValue(i) ==
    trades[i].shares * (IF trades[i].price = NoPrice THEN 0 ELSE trades[i].price)

\* The sum over the trades of a ticker of the signed cash value divided by
\* the on-or-before index price at the trade's date, in
\* 1/(shareUnit * ShareScale) index shares; 0 when there is no index price.
NetIndexShares(ticker) ==
    IF Len(spyPrices) = 0 THEN 0
    ELSE SetSum([i \in 1..Len(trades) |->
                    (IF trades[i].type = "sell" THEN 0 - CashValue(i) ELSE CashValue(i))
                    * (ShareScale \div IndexPriceOn(trades[i].date))],
                TradesOf(ticker))

\* C13: for every ticker reported by calculateStockBreakdown, shares is the
\* sum of the buy shares minus the sum of the sell shares of its trades,
\* currentPrice is the last entry of its provider price series (no split
\* un-adjustment), currentValue is shares x currentPrice, and its
\* counterfactual index shares are max(0, the sum over its trades of the
\* signed shares x price divided by the on-or-before index price at the trade
\* date), valued at the latest index price; each reported field rounded as
\* the row rounds it.
C13_BreakdownRow ==
    BreakdownReturned =>
        \A i \in 1..Len(breakdown) :
            LET row    == breakdown[i]
                ticker == row.ticker
                den    == shareUnit * ShareScale
                index  == Max(0, NetIndexShares(ticker))
            IN  /\ row.shares = RoundScaled(ShareDecimals, NetShares(ticker), shareUnit)
                /\ row.currentPrice = LastPriceOf(ticker)
                /\ row.currentValue
                       = RoundToCents(NetShares(ticker) * LastPriceOf(ticker), shareUnit)
                /\ row.spyShares = RoundScaled(100, index, den)
                /\ row.spyCurrentValue
                       = RoundToCents(index * getLatestPrice(spyPrices), den)

\* C13 witness: a row of a ticker that was bought and sold, with counterfactual
\* index shares, under an index price that changed since the trade.
C13_Witness ==
    /\ BreakdownReturned
    /\ \E i \in 1..Len(breakdown) :
          /\ \E b, s \in TradesOf(breakdown[i].ticker) :
                trades[b].type = "buy" /\ trades[s].type = "sell"
          /\ breakdown[i].spyShares > 0
          /\ breakdown[i].currentValue > 0
          /\ \E b \in TradesOf(breakdown[i].ticker) :
                IndexPriceOn(trades[b].date) # getLatestPrice(spyPrices)

\* The buy trades of a ticker, as indices of the list passed.
BuysOf(ticker) == {i \in TradesOf(ticker) : trades[i].type = "buy"}

\* C14: the buyDate reported by calculateStockBreakdown for a ticker is the
\* earliest date among that ticker's buy trades, for any order of the trades;
\* sell trades never set or move it.
C14_EarliestBuyDate ==
    BreakdownReturned =>
        \A i \in 1..Len(breakdown) :
            \E b \in BuysOf(breakdown[i].ticker) :
                /\ breakdown[i].buyDate = trades[b].date
                /\ \A other \in BuysOf(breakdown[i].ticker) :
                       trades[b].date <= trades[other].date

\* C15: the output of calculateStockBreakdown is ordered by non-increasing
\* difference: of every adjacent pair of rows the earlier row's difference is
\* >= the later row's, for any trades and prices.
C15_SortedByDifference ==
    BreakdownReturned =>
        \A i \in 1..(Len(breakdown) - 1) :
            breakdown[i].difference >= breakdown[i + 1].difference

\* C15 witness: two rows of different difference, the ticker of the first row
\* traded after the ticker of the second.
C15_Witness ==
    /\ BreakdownReturned
    /\ Len(breakdown) = 2
    /\ breakdown[1].difference > breakdown[2].difference
    /\ trades[1].ticker = breakdown[2].ticker

\* The sum of the buy values minus the sum of the sell values of the trades
\* passed, in 1/shareUnit dollars.
NetCashValue ==
    SetSum([i \in 1..Len(trades) |->
               IF trades[i].type = "sell" THEN 0 - CashValue(i) ELSE CashValue(i)],
           1..Len(trades))

\* The sum of a field over the rows of the breakdown, in 1/CentUnit cents.
RowTotal(field) ==
    SetSum([i \in 1..Len(breakdown) |-> breakdown[i][field]], 1..Len(breakdown))

\* (amount / basis) x 100 rounded to 2 decimals, in hundredths of a percent,
\* for an amount in 1/CentUnit cents and a basis > 0 in 1/shareUnit dollars.
PercentOfBasis(amount, basis) ==
    RoundScaled(100, amount * shareUnit, CentUnit * basis)

FirstOfMax ==
    CHOOSE k \in 1..Len(breakdown) :
        /\ \A j \in 1..Len(breakdown) : breakdown[j].difference <= breakdown[k].difference
        /\ \A j \in 1..(k - 1) : breakdown[j].difference < breakdown[k].difference

\* The first row of the breakdown whose difference no row undercuts.
FirstOfMin ==
    CHOOSE k \in 1..Len(breakdown) :
        /\ \A j \in 1..Len(breakdown) : breakdown[j].difference >= breakdown[k].difference
        /\ \A j \in 1..(k - 1) : breakdown[j].difference > breakdown[k].difference

\* C17: for a non-empty breakdown, bestPerformer is a row of maximum
\* difference and worstPerformer a row of minimum difference; among rows of
\* equal difference the one that comes first in the list is chosen, and with
\* a single row both refer to that row.
C17_BestAndWorst ==
    (SummaryReturned /\ Len(breakdown) > 0) =>
        /\ summary.bestPerformer
               = [ticker     |-> breakdown[FirstOfMax].ticker,
                  difference |-> breakdown[FirstOfMax].difference]
        /\ summary.worstPerformer
               = [ticker     |-> breakdown[FirstOfMin].ticker,
                  difference |-> breakdown[FirstOfMin].difference]

\* C17 witness: two rows of equal difference and different tickers; both
\* performers are the first row.
C17_Witness ==
    /\ SummaryReturned
    /\ Len(breakdown) = 2
    /\ breakdown[1].difference = breakdown[2].difference
    /\ breakdown[1].ticker # breakdown[2].ticker
    /\ summary.bestPerformer.ticker = breakdown[1].ticker
    /\ summary.worstPerformer.ticker = breakdown[1].ticker

\* C18: in every result of calculateSummary the reported totalDifference
\* equals the reported totalPortfolioValue minus the reported
\* totalCounterfactualValue, the three fields as returned, each rounded to 2
\* decimals, for any breakdown rows.
C18_TotalDifference ==
    SummaryReturned =>
        summary.totalDifference
            = summary.totalPortfolioValue - summary.totalCounterfactualValue

\* An amount of whole cents.
WholeCents(amount) == amount % CentUnit = 0

\* C18, amended: every amount of a row that calculateStockBreakdown returns
\* is a whole number of cents, and in the result of calculateSummary for rows
\* whose currentValue and spyCurrentValue are whole cents the reported
\* totalDifference equals the reported totalPortfolioValue minus the reported
\* totalCounterfactualValue.
C18_TotalDifferenceOfWholeCents ==
    /\ BreakdownReturned =>
           \A i \in 1..Len(breakdown) :
               /\ WholeCents(breakdown[i].currentValue)
               /\ WholeCents(breakdown[i].spyCurrentValue)
    /\ ( /\ SummaryReturned
         /\ \A i \in 1..Len(breakdown) :
                /\ WholeCents(breakdown[i].currentValue)
                /\ WholeCents(breakdown[i].spyCurrentValue) )
       => summary.totalDifference
              = summary.totalPortfolioValue - summary.totalCounterfactualValue

\* C18 witness: a summary of two rows of whole cents with a total difference
\* that is not the sum of the rows' difference fields.
C18_Witness ==
    /\ SummaryReturned
    /\ Len(breakdown) = 2
    /\ \A i \in 1..Len(breakdown) :
           /\ WholeCents(breakdown[i].currentValue)
           /\ WholeCents(breakdown[i].spyCurrentValue)
    /\ summary.totalDifference # 0
    /\ summary.totalDifference # RowTotal("difference")
    /\ summary.totalPortfolioValue > 0
    /\ summary.totalCounterfactualValue > 0

\* ----------------------------------------------------------- the date range
\* A call of getDateRange has returned.
RangeReturned == pc = "rangeReturned"

\* The order of calendar dates, as the order of their 'YYYY-MM-DD' strings.
DateBefore(a, b) ==
    \/ a.y < b.y
    \/ a.y = b.y /\ a.m < b.m
    \/ a.y = b.y /\ a.m = b.m /\ a.d < b.d

\* The earliest of the dates of a non-empty list of trades.
EarliestTradeDate(tr) ==
    CHOOSE date \in {tr[i].date : i \in 1..Len(tr)} :
        \A i \in 1..Len(tr) : ~DateBefore(tr[i].date, date)

LeapYear(y) == (y % 4 = 0 /\ y % 100 # 0) \/ y % 400 = 0

DaysInMonth(y, m) ==
    IF m = 2 THEN (IF LeapYear(y) THEN 29 ELSE 28)
    ELSE IF m \in {4, 6, 9, 11} THEN 30 ELSE 31

\* The calendar day after a date.
FollowingDay(date) ==
    IF date.d < DaysInMonth(date.y, date.m)
    THEN [date EXCEPT !.d = date.d + 1]
    ELSE IF date.m < 12
    THEN [y |-> date.y, m |-> date.m + 1, d |-> 1]
    ELSE [y |-> date.y + 1, m |-> 1, d |-> 1]

\* start is the date one year before end: the same month and day of the year
\* before, and for a 29 February either of the two days around where it would
\* be.
OneYearBefore(start, end) ==
    /\ start.y = end.y - 1
    /\ \/ start.m = end.m /\ start.d = end.d
       \/ /\ end.m = 2 /\ end.d = 29
          /\ start \in {CivilDate(end.y - 1, 2, 28), CivilDate(end.y - 1, 3, 1)}

\* C19: the startDate of getDateRange is the earliest of the trade dates for
\* a non-empty list of trades in any order, and with no trades it is the date
\* one year before the returned endDate, and so before it.
C19_StartDate ==
    RangeReturned =>
        IF Len(trades) > 0
        THEN range.startDate = EarliestTradeDate(trades)
        ELSE /\ OneYearBefore(range.startDate, range.endDate)
             /\ DateBefore(range.startDate, range.endDate)

\* C20: the endDate of getDateRange is the calendar date of New York at the
\* moment of the call when the hour there is before 16 and the following
\* calendar day when it is 16 or later, with trades and without.
C20_EndDate ==
    RangeReturned =>
        range.endDate = IF clock.nyHour < 16
                        THEN clock.nyDate
                        ELSE FollowingDay(clock.nyDate)

\* C20 witness: a call with trades at 16:00 in New York on the last day of a
\* year, in a runtime east of UTC, returns the first day of the next year.
C20_Witness ==
    /\ RangeReturned
    /\ Len(trades) > 0
    /\ clock.nyHour = 16
    /\ clock.zone > 0
    /\ clock.nyDate.m = 12 /\ clock.nyDate.d = 31
    /\ range.endDate = CivilDate(clock.nyDate.y + 1, 1, 1)

\* ------------------------------------------------------ the parallel fetch
\* A call of fetchMultipleStocks has returned.
FetchReturned == pc = "fetchReturned"

\* The requests of a ticker, and the last of them in the list of the call.
RequestsOf(ticker) == {i \in 1..Len(tickers) : tickers[i] = ticker}
LastRequestOf(ticker) ==
    CHOOSE i \in RequestsOf(ticker) : \A j \in RequestsOf(ticker) : j <= i

\* The request failed: no answer, no JSON, a bad status or an error message.
Failed(i) ==
    \/ responses[i].answer.kind \in {"networkError", "badBody"}
    \/ /\ responses[i].answer.kind = "response"
       /\ ~responses[i].answer.ok \/ responses[i].answer.error # Absent

\* The data the request fetched, an absent list counting as empty.
DataFetched(i, field) ==
    LET a == responses[i].answer
    IN  IF a[field] = Absent THEN <<>> ELSE a[field][1]

\* C21: fetchMultipleStocks never rejects because a fetch failed: whichever of
\* the parallel fetches fail and in whatever order they settle, the promise
\* is fulfilled only after every request settled, and its value has an entry
\* for every ticker asked for, and no other: empty prices and empty splits
\* for a ticker whose request failed, the fetched data for one whose request
\* succeeded (of a ticker asked for twice, the later request).
C21_PartialFailureIsolation ==
    /\ pc \in {"callFetch", "fetching"} => fetched = <<>>
    /\ FetchReturned =>
          /\ fetched.status = "fulfilled"
          /\ DOMAIN fetched.value.prices = {tickers[i] : i \in 1..Len(tickers)}
          /\ DOMAIN fetched.value.splits = {tickers[i] : i \in 1..Len(tickers)}
          /\ \A ticker \in {tickers[i] : i \in 1..Len(tickers)} :
                LET i == LastRequestOf(ticker)
                IN  /\ Failed(i) =>
                          /\ fetched.value.prices[ticker] = <<>>
                          /\ fetched.value.splits[ticker] = <<>>
                    /\ (~Failed(i) /\ responses[i].answer.kind = "response") =>
                          /\ fetched.value.prices[ticker] = DataFetched(i, "prices")
                          /\ fetched.value.splits[ticker] = DataFetched(i, "splits")

\* C21 witness: of three requests the second failed and settled first, the
\* last settled before the first, and the other two brought prices.
C21_Witness ==
    /\ FetchReturned
    /\ Len(tickers) = 3
    /\ tickers[1] # tickers[2]
    /\ settleOrder = <<2, 3, 1>>
    /\ Failed(2)
    /\ ~Failed(1) /\ ~Failed(3)
    /\ fetched.value.prices[tickers[2]] = <<>>
    /\ Len(fetched.value.prices[tickers[1]]) > 0

\* ------------------------------------------------------- the split factor
\* The product of the factors of the splits of a ticker dated after d.
LaterSplitsFactor(ticker, d) ==
    LET own == OrEmpty(splits, ticker)
    IN  SetProductOf([k \in 1..Len(own) |-> own[k].splitFactor],
                     {k \in 1..Len(own) : own[k].date > d})

\* A ticker is the only one held on the last day processed, and the provider
\* has a price for it dated that day.
OnlyHeldWithPrice(ticker) ==
    /\ dayIndex >= 1
    /\ HeldOn(ticker, Today) > 0
    /\ \A other \in Tickers \ {ticker} : HeldOn(other, Today) <= 0
    /\ \E i \in 1..Len(OrEmpty(stockPrices, ticker)) : stockPrices[ticker][i].date = Today

\* The provider's price of a ticker dated the last day processed.
PriceToday(ticker) ==
    stockPrices[ticker][CHOOSE i \in 1..Len(stockPrices[ticker]) :
                            stockPrices[ticker][i].date = Today].price

\* C22: the price of a ticker dated d is un-adjusted by the product of the
\* factors of exactly the splits of that ticker dated strictly after d: by 1
\* when there is none, not by a split dated d, by all the later ones in
\* whatever order they are passed, and never by a split of another ticker.
\* Stated of the value of the only ticker held on a day it has a price for.
C22_SplitFactor ==
    \A ticker \in Tickers :
        OnlyHeldWithPrice(ticker) =>
            portfolioValue = HeldOn(ticker, Today) * PriceToday(ticker)
                             * LaterSplitsFactor(ticker, Today)

\* C22 witness: the only ticker held was valued on a day before its two
\* splits, passed later split first, while the other ticker has a later
\* split too.
C22_Witness ==
    \E ticker \in Tickers :
        LET own == OrEmpty(splits, ticker)
        IN  /\ OnlyHeldWithPrice(ticker)
            /\ Len(own) = 2
            /\ own[1].date > own[2].date
            /\ own[2].date > Today
            /\ \E other \in Tickers \ {ticker} :
                   /\ other \in DOMAIN splits
                   /\ splits[other][1].date > Today
            /\ portfolioValue = HeldOn(ticker, Today) * PriceToday(ticker)
                                * own[1].splitFactor * own[2].splitFactor

\* ------------------------------------------------------- the two look-ups
\* Both look-ups have answered the same series and target.
Searched == pc = "searched"

\* C23: the binary search of the time-series engine (getPriceOnOrBefore) and
\* the backward scan of the breakdown (getPriceOnDate) return the same result
\* for every date-ascending series and every target date: the first entry's
\* price when the target precedes every entry, null for an empty series.
C23_LookupsAgree ==
    Searched =>
        /\ found = answer
        /\ Len(spyPrices) = 0 => found = Null
        /\ ( /\ Len(spyPrices) > 0
             /\ \A i \in 1..Len(spyPrices) : spyPrices[i].date > query )
           => found = spyPrices[1].price

\* C23 witness: both look-ups answered a target before every entry of a series
\* of three entries, the first two of different prices, with the first
\* entry's price.
C23_Witness ==
    /\ Searched
    /\ Len(spyPrices) = 3
    /\ spyPrices[1].price # spyPrices[2].price
    /\ \A i \in 1..Len(spyPrices) : spyPrices[i].date > query
    /\ found = spyPrices[1].price
    /\ answer = spyPrices[1].price

\* ------------------------------------------------- the fallback look-up
\* A ticker is the only one held on the last day processed, and the provider
\* has no price for it dated that day.
OnlyHeldWithoutPrice(ticker) ==
    /\ dayIndex >= 1
    /\ HeldOn(ticker, Today) > 0
    /\ \A other \in Tickers \ {ticker} : HeldOn(other, Today) <= 0
    /\ \A i \in 1..Len(OrEmpty(stockPrices, ticker)) : stockPrices[ticker][i].date # Today

\* The value of the held shares of a ticker at the split-unadjusted price of
\* its latest entry on or before the last day processed, of its first entry
\* when there is none.
ValueAtEarlierEntry(ticker) ==
    LET prices == stockPrices[ticker]
        i      == OnOrBefore(prices, Today)
    IN  HeldOn(ticker, Today) * prices[i].price
        * LaterSplitsFactor(ticker, prices[i].date)

\* C24 as stated: a ticker with positive held shares and no price entry dated
\* the current index day is valued at the split-unadjusted price of its latest
\* entry on or before that day (clamped to its first entry), not at 0.
C24_FallbackPrice ==
    \A ticker \in Tickers :
        OnlyHeldWithoutPrice(ticker) =>
            /\ Len(OrEmpty(stockPrices, ticker)) > 0
            /\ portfolioValue = ValueAtEarlierEntry(ticker)
            /\ portfolioValue # 0

\* C24: a ticker with positive held shares, a non-empty price series and no
\* entry dated the current index day is valued at the split-unadjusted price
\* of its latest entry on or before that day (clamped to its first entry),
\* not at 0; a held ticker with no price entry at all is valued at 0.
C24_FallbackPriceOfNonEmptySeries ==
    \A ticker \in Tickers :
        OnlyHeldWithoutPrice(ticker) =>
            IF Len(OrEmpty(stockPrices, ticker)) > 0
            THEN /\ portfolioValue = ValueAtEarlierEntry(ticker)
                 /\ portfolioValue # 0
            ELSE portfolioValue = 0

\* C24 witness: the only ticker held was valued on a day for which it has no
\* entry at the price of an earlier entry times the factor of a split dated
\* after that entry.
C24_Witness ==
    \E ticker \in Tickers :
        LET prices == OrEmpty(stockPrices, ticker)
            own    == OrEmpty(splits, ticker)
        IN  /\ OnlyHeldWithoutPrice(ticker)
            /\ Len(prices) > 0
            /\ Len(own) > 0
            /\ portfolioValue = ValueAtEarlierEntry(ticker)
            /\ portfolioValue > HeldOn(ticker, Today) * prices[OnOrBefore(prices, Today)].price
            /\ prices[OnOrBefore(prices, Today)].date < Today

\* ------------------------------------------- monotonic deposit accumulation
\* Every cash flow is a deposit of an amount >= 0, and no trade is a sell.
OnlyDepositsNoSells ==
    /\ \A i \in 1..Len(cashFlows) :
           cashFlows[i].type = "deposit" /\ cashFlows[i].amount >= 0
    /\ \A i \in 1..Len(trades) : trades[i].type # "sell"

\* One day of the loop does not lower the counterfactual index-share count.
C25_Step ==
    (OnlyDepositsNoSells /\ dayIndex' = dayIndex + 1)
        => counterfactualSpyShares' >= counterfactualSpyShares

\* C25: monotonic deposit accumulation: when every cash flow is a deposit of
\* an amount >= 0 and no trade is a sell, the counterfactual index-share count
\* of each day of the run, and so of each emitted day, is at least that of
\* the day before.
C25_MonotonicDeposits == [][C25_Step]_vars

\* C25 witness: a run of deposits only and buys only has emitted a point for
\* each of its days, with a count that grew from the first day to the last by
\* a second deposit.
C25_Witness ==
    /\ pc = "done"
    /\ OnlyDepositsNoSells
    /\ Len(cashFlows) = 2
    /\ cashFlows[1].date # cashFlows[2].date
    /\ Len(dataPoints) = Len(spyPrices)
    /\ DepositSharesOn(spyPrices[1].date) > 0
    /\ counterfactualSpyShares > DepositSharesOn(spyPrices[1].date)

\* The on-or-before index price at date d; 0 when the index series is empty.
GuardedIndexPrice(d) ==
    IF Len(spyPrices) = 0 THEN 0 ELSE spyPrices[OnOrBefore(spyPrices, d)].price

\* The index shares, in 1/(shareUnit * ShareScale), an amount buys at date d:
\* none when the on-or-before index price is 0 or missing.
Contribution(amount, d) ==
    IF GuardedIndexPrice(d) = 0 THEN 0
    ELSE (amount * ShareScale) \div GuardedIndexPrice(d)

\* The index shares the deposits dated <= d buy.
GuardedDepositShares(d) ==
    SetSum([i \in 1..Len(cashFlows) |->
               IF cashFlows[i].type = "deposit" /\ cashFlows[i].date <= d
               THEN Contribution(cashFlows[i].amount, cashFlows[i].date) ELSE 0],
           1..Len(cashFlows))

\* The index shares trade i buys (sells).
SignedContribution(i) ==
    (IF trades[i].type = "sell" THEN 0 - 1 ELSE 1)
    * Contribution(CashValue(i), trades[i].date)

\* The index shares the trades dated <= d buy (sell).
GuardedTradeShares(d) ==
    SetSum([i \in 1..Len(trades) |->
               IF trades[i].date <= d THEN SignedContribution(i) ELSE 0],
           1..Len(trades))

\* The numeric fields of the three output records.
PointFields ==
    {"portfolioValue", "counterfactualValue", "costBasis", "portfolioReturn",
     "counterfactualReturn"}
RowFields ==
    {"shares", "buyPrice", "currentPrice", "currentValue", "spyShares",
     "spyCurrentValue", "gain", "spyGain", "difference"}
SummaryFields ==
    {"totalCostBasis", "totalPortfolioValue", "totalCounterfactualValue",
     "portfolioReturn", "counterfactualReturn", "totalDifference",
     "percentageDifference"}

\* C26: divisions by zero are guarded and resolve to 0: a trade or deposit
\* whose on-or-before index price is 0 or missing contributes 0 index shares
\* to the time series and to the breakdown, a day of cost basis 0 produces no
\* point, a summary of total cost basis 0 reports returns of 0, and no field
\* of a point, a row or a summary is a quotient by 0.
C26_GuardedDivisions ==
    /\ dayIndex >= 1 =>
           counterfactualSpyShares
               = IF HasDeposit THEN GuardedDepositShares(Today)
                               ELSE GuardedTradeShares(Today)
    /\ BreakdownReturned =>
           \A i \in 1..Len(breakdown) :
               breakdown[i].spyShares
                   = RoundScaled(100,
                                 Max(0, SetSum([k \in 1..Len(trades) |-> SignedContribution(k)],
                                               TradesOf(breakdown[i].ticker))),
                                 shareUnit * ShareScale)
    /\ \A i \in 1..dayIndex :
           CostBasisOn(spyPrices[i].date) = 0 =>
               \A k \in 1..Len(dataPoints) : dataPoints[k].date # spyPrices[i].date
    /\ (SummaryReturned /\ Max(0, NetCashValue) = 0) =>
           /\ summary.portfolioReturn = 0
           /\ summary.counterfactualReturn = 0
           /\ summary.percentageDifference = 0
    /\ \A k \in 1..Len(dataPoints) : \A f \in PointFields : dataPoints[k][f] # NotFinite
    /\ \A i \in 1..Len(breakdown) : \A f \in RowFields : breakdown[i][f] # NotFinite
    /\ SummaryReturned => \A f \in SummaryFields : summary[f] # NotFinite

\* C26 witness: the three calls have returned where a deposit of a positive
\* amount and a trade of a positive value of a reported ticker both fall on
\* dates whose on-or-before index price is 0, some day of cost basis 0 was
\* passed over while another was emitted, and the summary of a non-empty
\* breakdown has total cost basis 0 and returns of 0.
C26_Witness ==
    /\ pc = "summary"
    /\ Len(spyPrices) > 0
    /\ \E i \in 1..Len(cashFlows) :
           /\ cashFlows[i].type = "deposit"
           /\ cashFlows[i].amount > 0
           /\ cashFlows[i].date <= spyPrices[Len(spyPrices)].date
           /\ GuardedIndexPrice(cashFlows[i].date) = 0
    /\ \E i \in 1..Len(trades) :
           /\ CashValue(i) > 0
           /\ trades[i].ticker \in RowTickers
           /\ GuardedIndexPrice(trades[i].date) = 0
    /\ \E i \in 1..Len(spyPrices) : CostBasisOn(spyPrices[i].date) = 0
    /\ Len(dataPoints) >= 1
    /\ Len(breakdown) > 0
    /\ Max(0, NetCashValue) = 0
    /\ summary.portfolioReturn = 0
    /\ summary.counterfactualReturn = 0

\* One step of a call leaves the arrays passed to it as they were: the trades,
\* the price series, the cash flows and the lists of splits in every step,
\* the rows of the breakdown in the step of calculateSummary.
C27_Step ==
    /\ trades' = trades
    /\ stockPrices' = stockPrices
    /\ spyPrices' = spyPrices
    /\ cashFlows' = cashFlows
    /\ splits' = splits
    /\ pc \in {"breakdown", "callSummary"} => breakdown' = breakdown

BoughtWithoutPrice(ticker) ==
    /\ \A i \in TradesOf(ticker) : trades[i].type = "buy"
    /\ \E i \in TradesOf(ticker) : trades[i].price = NoPrice

\* The cost of the trades of a ticker with a trade without price counted at
\* price 0, in 1/shareUnit dollars.
CostAtZero(ticker) ==
    SetSum([i \in 1..Len(trades) |->
               IF trades[i].type = "sell" THEN 0 - CashValue(i) ELSE CashValue(i)],
           TradesOf(ticker))

\* C28: calculateStockBreakdown and calculateSummary do not count a trade
\* without price as a trade at price 0: the average buy price and the index
\* shares of a row whose ticker was only bought, once at least without price,
\* are not those of the same trades with the missing price taken as 0, and
\* neither is the summary's totalCostBasis where every trade is such a buy.
C28_AbsentPriceNotZero ==
    /\ BreakdownReturned =>
           \A i \in 1..Len(breakdown) :
               LET ticker == breakdown[i].ticker
               IN  BoughtWithoutPrice(ticker) =>
                       /\ breakdown[i].buyPrice
                              # RoundToCents(CostAtZero(ticker), NetShares(ticker))
                       /\ breakdown[i].spyShares
                              # RoundScaled(100, Max(0, NetIndexShares(ticker)),
                                            shareUnit * ShareScale)
    /\ (/\ SummaryReturned
        /\ Len(breakdown) > 0
        /\ \A ticker \in {trades[i].ticker : i \in 1..Len(trades)} :
               BoughtWithoutPrice(ticker))
           => summary.totalCostBasis # RoundToCents(Max(0, NetCashValue), shareUnit)

\* The ticker has no price: no series, or an empty one.
WithoutSeries(ticker) == Len(OrEmpty(stockPrices, ticker)) = 0

\* The tickers held (net shares > 0) that have no price.
HeldWithoutSeries == {ticker \in TradedTickers : NetShares(ticker) > 0 /\ WithoutSeries(ticker)}

\* What a summary reports of a ticker that the breakdown left out: its trades
\* are in totalCostBasis, and the two value totals are those of the rows.
CountsOmittedTickers ==
    /\ summary.totalCostBasis = RoundToCents(Max(0, NetCashValue), shareUnit)
    /\ summary.totalPortfolioValue
           = RoundToCents(RowTotal("currentValue"), 100 * CentUnit)
    /\ summary.totalCounterfactualValue
           = RoundToCents(RowTotal("spyCurrentValue"), 100 * CentUnit)

\* A held ticker without price has no row, and every row's ticker has a
\* price.
OmitsTickersWithoutSeries ==
    BreakdownReturned =>
        /\ \A ticker \in HeldWithoutSeries : ticker \notin RowTickers
        /\ \A ticker \in RowTickers : ~WithoutSeries(ticker)

\* C29 as stated: a held ticker with a missing or empty price series is left
\* out of the breakdown, every reported ticker has a non-empty price series,
\* and the trades of a ticker left out still count in the summary's
\* totalCostBasis while its value is in neither value total.
C29_OmittedTicker ==
    /\ OmitsTickersWithoutSeries
    /\ (SummaryReturned /\ HeldWithoutSeries # {}) => CountsOmittedTickers

\* C29 as the code has it: the same, the trades of a ticker left out counting
\* in totalCostBasis when some other ticker is reported; when no ticker is
\* reported totalCostBasis is 0 as every other field of the summary.
C29_OmittedTickerBesideReported ==
    /\ OmitsTickersWithoutSeries
    /\ (SummaryReturned /\ HeldWithoutSeries # {}) =>
           IF Len(breakdown) > 0 THEN CountsOmittedTickers
           ELSE /\ summary.totalCostBasis = 0
                /\ summary.totalPortfolioValue = 0
                /\ summary.totalCounterfactualValue = 0

\* C29 witness: a summary of a breakdown that reports one ticker and leaves
\* out a held ticker without price, whose trades make the whole of a positive
\* totalCostBasis.
C29_Witness ==
    /\ SummaryReturned
    /\ Len(breakdown) = 1
    /\ \E ticker \in HeldWithoutSeries :
           /\ CostAtZero(ticker) > 0
           /\ summary.totalCostBasis = RoundToCents(CostAtZero(ticker), shareUnit)
    /\ summary.totalPortfolioValue = breakdown[1].currentValue

\* The call that finished last.
LastFinished == finished[Len(finished)]

\* The calls that succeeded, in the order in which they finished.
Successes == SelectSeq(finished, LAMBDA i : calls[i].status = "succeeded")

\* What one step of the hook does to its state: a call with no trades sets
\* the error and nothing else; a call with trades sets loading and clears the
\* error; a call that finishes clears loading, whatever calls are in flight,
\* and when it succeeded shows its own results.
C30_Step ==
    /\ Len(calls') = Len(calls) + 1 =>
           LET data == calls'[Len(calls')].data
           IN  IF Len(data.trades) = 0
               THEN /\ error' = <<"No trades provided">>
                    /\ loading' = loading
                    /\ shown' = shown
               ELSE /\ loading' = TRUE
                    /\ error' = <<>>
                    /\ shown' = shown
    /\ Len(finished') = Len(finished) + 1 =>
           LET i == finished'[Len(finished')]
           IN  /\ loading' = FALSE
               /\ IF calls'[i].status = "succeeded"
                  THEN shown' = Results(calls[i].data)
                  ELSE shown' = shown

\* The results shown are those of the call that finished last among the
\* calls that succeeded, nothing before any succeeded.
ShowsLastFinished ==
    shown = IF Len(Successes) = 0 THEN NothingShown
            ELSE Results(calls[Successes[Len(Successes)]].data)

\* C30: overlapping calls of loadData: each call with trades sets loading
\* when it starts and clears it when it finishes, and shows its results when
\* it succeeds, with no test that it is the latest call; loading is cleared
\* by the first call to finish while another is in flight, and the results
\* shown are those of the call that finished last. A call with no trades
\* sets the error and leaves loading and the results as they were.
C30_OverlappingCalls == []ShowsLastFinished /\ [][C30_Step]_vars

\* C30 witness: three calls with trades overlapped; the third finished first,
\* then the first; loading is cleared while the second is in flight, and the
\* results shown are those of the first call, which differ from those of the
\* third.
C30_Witness ==
    /\ Len(calls) = 3
    /\ finished = <<3, 1>>
    /\ InFlight = {2}
    /\ calls[1].status = "succeeded"
    /\ calls[3].status = "succeeded"
    /\ loading = FALSE
    /\ shown = Results(calls[1].data)
    /\ shown # Results(calls[3].data)

=============================================================================
